---- MODULE Spec2Model ----
(***************************************************************************)
(* Plugin registry and hook system of NERD CMS (src/src/worker.js, the     *)
(* plugins.js part, lines 447-677).                                        *)
(*                                                                         *)
(* State: the two module-level maps `plugins` and `hooks`.  A JS Map keeps *)
(* insertion order, so `plugins` is a sequence of metadata records with    *)
(* distinct names; `hooks` is a function from the hook names that have     *)
(* been set to their handler arrays.  Every entry of a handler array also  *)
(* carries `seq`, a history value that ranks the entries of one array by   *)
(* the time of their addHook call (it is not read by the code).            *)
(* `lastCall` records the most recent API call with its arguments, its     *)
(* outcome and, for executeHooks, every handler invocation it made.        *)
(*                                                                         *)
(* Host bridge: readCString / writeCString on the guest's linear memory    *)
(* (SpecCString), the guest's bump allocator of runtime_wasm.c (SpecHeap), *)
(* and the fetch handlers that instantiate the guest, call its entry point *)
(* and answer with the collected output, one request at a time             *)
(* (SpecRender) and two requests interleaved at the await (SpecConcurrent).*)
(***************************************************************************)
EXTENDS Integers, Sequences, FiniteSets, TLC

VARIABLES plugins, hooks, lastCall

\* Host bridge: the guest's linear memory as the host sees it, and the most
\* recent readCString / writeCString call.
VARIABLES memory, cstr

\* Guest allocator (runtime_wasm.c): the bump offset, the most recent call,
\* the allocations made since the last reset, those of one earlier period
\* between resets, and how the build compiled the overflowing bound check.
VARIABLES heap_offset, heapCall, allocs, earlier, checkWraps

\* Request handling (the fetch handlers): which worker source is deployed,
\* the imported guest module, the module-level outputBuffer and currentPath,
\* and the requests being served.
VARIABLES worker, wasmModule, outputBuffer, currentPath, reqs

\* The callWasmRender call of the full worker: its payload, the steps it
\* has taken on the instance, and what the entry point found in the shared
\* buffer.
VARIABLE render

\* Asynchronous execution: the executeHooks call in flight (its position in
\* the array it iterates, the handlers it has invoked) and the request the
\* hooks pipeline is serving (cached is the `cached` property of its request
\* context).
VARIABLES run, pipe

\* The cache plugin: the Map its init creates (path to the stored data and
\* the time it was stored), and the clock Date.now() reads, in seconds.
VARIABLES cache, now

pluginVars == <<plugins, hooks, lastCall>>

cstringVars == <<memory, cstr>>

heapVars == <<heap_offset, heapCall, allocs, earlier, checkWraps>>

requestVars == <<worker, wasmModule, outputBuffer, currentPath, reqs, render>>

hostVars == <<cstringVars, heapVars, requestVars>>

asyncVars == <<run, pipe, cache, now>>

vars == <<plugins, hooks, lastCall, memory, cstr,
          heap_offset, heapCall, allocs, earlier, checkWraps,
          worker, wasmModule, outputBuffer, currentPath, reqs, render, run, pipe, cache, now>>

\* ------------------------------------------------------------- bounds
\* Largest number of live handler entries over all hook points.
MaxEntries == 2

\* ------------------------------------------------------------- inputs
\* priority: handler.priority || 10
DefaultPriority == 10

HookNames == {"request:start", "template:after"}

PluginNames == {"seo", "cache"}

\* Owner names addHook is called with directly.
OwnerNames == PluginNames \cup {"anonymous"}

\* Function values used as handlers; PriorityProp is the `priority`
\* property of the function object where it has one.
Handlers == {"hNeg", "h0", "h1", "h5", "hNone"}

HasPriorityProp(handler) == handler \in {"hNeg", "h0", "h1", "h5"}

PriorityProp(handler) ==
  CASE handler = "hNeg" -> -2
    [] handler = "h0" -> 0
    [] handler = "h1" -> 1
    [] handler = "h5" -> 5

\* What one handler invocation does: return a defined value, return
\* undefined, or throw (for the async variant: a rejected promise).
Outcomes == {"value", "undef", "throw"}

\* The initial data of a waterfall.
Data0 == <<"d0">>

\* String.prototype.replace(pattern, replacement) with a string pattern: the
\* first occurrence only, and the string itself when there is none.
ReplaceFirst(str, pattern, replacement) ==
  IF \E i \in 1..Len(str) : str[i] = pattern
  THEN LET k == CHOOSE i \in 1..Len(str) :
                  str[i] = pattern /\ \A j \in 1..(i - 1) : str[j] # pattern
       IN SubSeq(str, 1, k - 1) \o replacement \o SubSeq(str, k + 1, Len(str))
  ELSE str

\* The defined value a handler returns for argument data.  ogTags is the
\* template:after handler of the seo plugin, cacheHit a request:start handler
\* that answers from a cache; the others mark the data they were given.
HandlerValue(handler, data) ==
  CASE handler = "ogTags" -> ReplaceFirst(data, "</head>", <<"og:tags", "</head>">>)
    [] handler = "cacheHit" -> <<"cached", "html">>
    [] OTHER -> Append(data, handler)

\* How the promise of a handler can settle.
HandlerOutcomes(handler) ==
  IF handler \in {"ogTags", "cacheHit", "cacheStart", "cacheStore"}
  THEN {"value"} ELSE Outcomes

EmptyMap == <<>>

\* ------------------------------------------------------------- helpers
Front(s) == SubSeq(s, 1, Len(s) - 1)

Range(s) == {s[i] : i \in 1..Len(s)}

RECURSIVE SumLen(_, _)
SumLen(f, ks) ==
  IF ks = {} THEN 0
  ELSE LET k == CHOOSE x \in ks : TRUE
       IN Len(f[k]) + SumLen(f, ks \ {k})

TotalEntries(hs) == SumLen(hs, DOMAIN hs)

\* plugins.has(name)
HasPlugin(ps, name) == \E i \in 1..Len(ps) : ps[i].name = name

PluginIndex(ps, name) == CHOOSE i \in 1..Len(ps) : ps[i].name = name

\* plugins.get(name), for a name that is registered
GetPlugin(ps, name) == ps[PluginIndex(ps, name)]

\* A map that puts a new key first.
PluginsSetFirst(ps, rec) ==
  IF HasPlugin(ps, rec.name)
  THEN [ps EXCEPT ![PluginIndex(ps, rec.name)] = rec]
  ELSE <<rec>> \o ps

\* plugins.set(name, rec): a new key goes last, an existing key keeps its place
PluginsSet(ps, rec) ==
  IF HasPlugin(ps, rec.name)
  THEN [ps EXCEPT ![PluginIndex(ps, rec.name)] = rec]
  ELSE Append(ps, rec)

\* plugins.delete(name)
PluginsDelete(ps, name) == SelectSeq(ps, LAMBDA p : p.name # name)

\* { ...a, ...b }
MergeConfig(a, b) ==
  [k \in DOMAIN a \cup DOMAIN b |-> IF k \in DOMAIN b THEN b[k] ELSE a[k]]

\* The history rank of the entries of one array, renumbered 1..n in order.
Renumber(list) ==
  [i \in 1..Len(list) |->
     [list[i] EXCEPT !.seq = Cardinality({j \in 1..Len(list) : list[j].seq <= list[i].seq})]]

\* ------------------------------------------------------------- addHook
\* handler.priority || 10
StoredPriority(handler) ==
  IF HasPriorityProp(handler) /\ PriorityProp(handler) # 0
  THEN PriorityProp(handler)
  ELSE DefaultPriority

\* A sort step that leaves the new element at the end.
InsertAtEnd(sorted, e) == Append(sorted, e)

\* A sort step that puts e in front of the elements it compares equal to.
InsertUnstable(sorted, e) ==
  LET k == Cardinality({i \in 1..Len(sorted) : sorted[i].priority < e.priority})
  IN SubSeq(sorted, 1, k) \o <<e>> \o SubSeq(sorted, k + 1, Len(sorted))

\* One step of the stable sort: e goes behind every element that does not
\* compare greater than it.
InsertStable(sorted, e) ==
  LET k == Cardinality({i \in 1..Len(sorted) : sorted[i].priority <= e.priority})
  IN SubSeq(sorted, 1, k) \o <<e>> \o SubSeq(sorted, k + 1, Len(sorted))

\* Array.prototype.sort((a, b) => a.priority - b.priority): a stable sort
RECURSIVE SortByPriority(_)
SortByPriority(list) ==
  IF list = <<>> THEN <<>>
  ELSE InsertStable(SortByPriority(Front(list)), list[Len(list)])

\* addHook(hookName, handler, pluginName) on the map hs
AddHookTo(hs, hookName, handler, pluginName) ==
  LET old == IF hookName \in DOMAIN hs THEN hs[hookName] ELSE <<>>
      entry == [handler |-> handler, plugin |-> pluginName,
                priority |-> StoredPriority(handler), seq |-> Len(old) + 1]
      new == SortByPriority(Append(old, entry))
  IN [k \in DOMAIN hs \cup {hookName} |-> IF k = hookName THEN new ELSE hs[k]]

\* removeHook that empties the hook point's list.
RemoveHookClearsList(hs, hookName, handler) ==
  IF hookName \notin DOMAIN hs THEN hs
  ELSE [hs EXCEPT ![hookName] = <<>>]

\* removeHook(hookName, handler) on the map hs
RemoveHookFrom(hs, hookName, handler) ==
  IF hookName \notin DOMAIN hs THEN hs
  ELSE [hs EXCEPT ![hookName] =
          Renumber(SelectSeq(hs[hookName], LAMBDA h : h.handler # handler))]

\* ------------------------------------------------------------- lastCall
NoDescriptor ==
  [name |-> "", version |-> "undefined", description |-> "undefined",
   config |-> EmptyMap, hooks |-> <<>>,
   init |-> [defined |-> FALSE, ops |-> <<>>, throws |-> FALSE, value |-> "undefined"]]

\* History fields: atInit and atThrow are the hook map at the moment init is
\* called and at the moment it throws, removed the (hook, handler) pairs an
\* unregisterPlugin call filtered out, before what ran before a plugin was
\* disabled (tracked says that it is set).
NoCall ==
  [op |-> "none", name |-> "", hook |-> "", handler |-> "", enabled |-> FALSE, ret |-> "",
   data |-> <<>>, out |-> <<>>, result |-> <<>>, calls |-> <<>>,
   desc |-> NoDescriptor, initCalled |-> FALSE, atInit |-> EmptyMap,
   atThrow |-> EmptyMap, removed |-> {}, tracked |-> FALSE, before |-> EmptyMap]

\* ------------------------------------------------------------- executeHooks
\* A waterfall that skips no entry.
SkipsNothing(ps, e) == FALSE

\* const pluginData = plugins.get(plugin); pluginData && !pluginData.enabled
SkipsEntry(ps, e) == HasPlugin(ps, e.plugin) /\ ~GetPlugin(ps, e.plugin).enabled

\* One invocation `handler(result, context)` with the given outcome.
CallRecord(e, arg, outcome) ==
  [handler |-> e.handler, plugin |-> e.plugin, priority |-> e.priority,
   seq |-> e.seq, arg |-> arg, outcome |-> outcome]

\* The loop of executeHooks over list from index i on, with `result` so far
\* and the invocations made so far; out[i] is what the handler at index i
\* does when it is invoked.
\* A waterfall that lets the first throw of a handler escape.
RECURSIVE WaterfallAbortOnThrow(_, _, _, _, _, _)
WaterfallAbortOnThrow(ps, list, out, i, result, calls) ==
  IF i > Len(list) THEN [result |-> result, calls |-> calls, threw |-> FALSE]
  ELSE IF SkipsEntry(ps, list[i])
       THEN WaterfallAbortOnThrow(ps, list, out, i + 1, result, calls)
       ELSE LET called == Append(calls, CallRecord(list[i], result, out[i]))
            IN IF out[i] = "value"
               THEN WaterfallAbortOnThrow(ps, list, out, i + 1,
                                          HandlerValue(list[i].handler, result), called)
               ELSE IF out[i] = "throw"
                    THEN [result |-> result, calls |-> called, threw |-> TRUE]
                    ELSE WaterfallAbortOnThrow(ps, list, out, i + 1, result, called)

\* A waterfall in which an undefined return value replaces the result.
RECURSIVE WaterfallUndefOverwrites(_, _, _, _, _, _)
WaterfallUndefOverwrites(ps, list, out, i, result, calls) ==
  IF i > Len(list) THEN [result |-> result, calls |-> calls, threw |-> FALSE]
  ELSE IF SkipsEntry(ps, list[i])
       THEN WaterfallUndefOverwrites(ps, list, out, i + 1, result, calls)
       ELSE LET called == Append(calls, CallRecord(list[i], result, out[i]))
            IN IF out[i] = "value"
               THEN WaterfallUndefOverwrites(ps, list, out, i + 1,
                                             HandlerValue(list[i].handler, result), called)
               ELSE IF out[i] = "undef"
                    THEN WaterfallUndefOverwrites(ps, list, out, i + 1, <<>>, called)
                    ELSE WaterfallUndefOverwrites(ps, list, out, i + 1, result, called)

\* The loop of executeHooks over list from index i on, with `result` so far
\* and the invocations made so far; out[i] is what the handler at index i
\* does when it is invoked.  threw: an error escaped the loop.
RECURSIVE WaterfallFrom(_, _, _, _, _, _)
WaterfallFrom(ps, list, out, i, result, calls) ==
  IF i > Len(list) THEN [result |-> result, calls |-> calls, threw |-> FALSE]
  ELSE IF SkipsEntry(ps, list[i])
       THEN WaterfallFrom(ps, list, out, i + 1, result, calls)
       ELSE LET called == Append(calls, CallRecord(list[i], result, out[i]))
            IN IF out[i] = "value"
               THEN WaterfallFrom(ps, list, out, i + 1,
                                  HandlerValue(list[i].handler, result), called)
               ELSE \* undefined keeps the previous result; a throw is caught and logged
                    WaterfallFrom(ps, list, out, i + 1, result, called)

\* executeHooks without the test for a hook point that has no list.
RunHooksMissingListFails(ps, hs, hookName, data, out) ==
  IF hookName \notin DOMAIN hs THEN [result |-> <<>>, calls |-> <<>>, threw |-> TRUE]
  ELSE WaterfallFrom(ps, hs[hookName], out, 1, data, <<>>)

\* executeHooks(hookName, data, context) on the registry (ps, hs)
RunHooks(ps, hs, hookName, data, out) ==
  IF hookName \notin DOMAIN hs THEN [result |-> data, calls |-> <<>>, threw |-> FALSE]
  ELSE WaterfallFrom(ps, hs[hookName], out, 1, data, <<>>)

\* A synchronous waterfall that also calls the handlers of disabled plugins.
RECURSIVE WaterfallSyncNoSkip(_, _, _, _, _, _)
WaterfallSyncNoSkip(ps, list, out, i, result, calls) ==
  IF i > Len(list) THEN [result |-> result, calls |-> calls, threw |-> FALSE]
  ELSE LET called == Append(calls, CallRecord(list[i], result, out[i]))
       IN IF out[i] = "value"
          THEN WaterfallSyncNoSkip(ps, list, out, i + 1,
                                   HandlerValue(list[i].handler, result), called)
          ELSE WaterfallSyncNoSkip(ps, list, out, i + 1, result, called)

\* The loop of executeHooksSync: the handler is called without await; its
\* return value replaces the result unless it is undefined, and a throw is
\* caught and logged.
RECURSIVE WaterfallSyncFrom(_, _, _, _, _, _)
WaterfallSyncFrom(ps, list, out, i, result, calls) ==
  IF i > Len(list) THEN [result |-> result, calls |-> calls, threw |-> FALSE]
  ELSE LET pluginData == IF HasPlugin(ps, list[i].plugin)
                         THEN {GetPlugin(ps, list[i].plugin)} ELSE {}
       IN IF \E p \in pluginData : ~p.enabled
          THEN WaterfallSyncFrom(ps, list, out, i + 1, result, calls)
          ELSE LET called == Append(calls, CallRecord(list[i], result, out[i]))
               IN CASE out[i] = "value" ->
                         WaterfallSyncFrom(ps, list, out, i + 1,
                                           HandlerValue(list[i].handler, result), called)
                    [] out[i] = "undef" ->
                         WaterfallSyncFrom(ps, list, out, i + 1, result, called)
                    [] out[i] = "throw" ->
                         WaterfallSyncFrom(ps, list, out, i + 1, result, called)

\* executeHooksSync(hookName, data, context) on the registry (ps, hs)
RunHooksSync(ps, hs, hookName, data, out) ==
  IF hookName \notin DOMAIN hs THEN [result |-> data, calls |-> <<>>, threw |-> FALSE]
  ELSE WaterfallSyncFrom(ps, hs[hookName], out, 1, data, <<>>)

\* What each handler function does when called, as one of a few behaviours
\* of the whole handler population.
OutcomeProfiles ==
  {[h \in Handlers |-> "value"],
   [h \in Handlers |-> CASE h = "hNeg" -> "undef" [] h = "h0" -> "throw" [] OTHER -> "value"],
   [h \in Handlers |-> CASE h \in {"h1", "hNone"} -> "throw" [] h = "h5" -> "undef"
                         [] OTHER -> "value"]}

\* The outcomes, by index, the handlers of a hook point can be given.
OutcomeChoices(hs, hookName) ==
  IF hookName \notin DOMAIN hs THEN {<<>>}
  ELSE {[i \in 1..Len(hs[hookName]) |-> profile[hs[hookName][i].handler]] :
          profile \in OutcomeProfiles}

\* ------------------------------------------------------------- plugins
\* A capability object whose addHook does not bind the plugin's name.
ApplyInitOpAnonymous(op, hs, ps, pluginName) ==
  CASE op.op = "addHook" ->
         [hooks |-> AddHookTo(hs, op.hook, op.handler, "anonymous"), plugins |-> ps]
    [] op.op = "removeHook" ->
         [hooks |-> RemoveHookFrom(hs, op.hook, op.handler), plugins |-> ps]
    [] op.op = "setConfig" ->
         [hooks |-> hs,
          plugins |-> IF HasPlugin(ps, pluginName)
                      THEN [ps EXCEPT ![PluginIndex(ps, pluginName)].config =
                              MergeConfig(@, op.config)]
                      ELSE ps]

\* The call a plugin's init makes on its capability object.
ApplyInitOp(op, hs, ps, pluginName) ==
  CASE op.op = "addHook" ->
         [hooks |-> AddHookTo(hs, op.hook, op.handler, pluginName), plugins |-> ps]
    [] op.op = "removeHook" ->
         [hooks |-> RemoveHookFrom(hs, op.hook, op.handler), plugins |-> ps]
    [] op.op = "setConfig" ->
         [hooks |-> hs,
          plugins |-> IF HasPlugin(ps, pluginName)
                      THEN [ps EXCEPT ![PluginIndex(ps, pluginName)].config =
                              MergeConfig(@, op.config)]
                      ELSE ps]

RECURSIVE RunInitOps(_, _, _, _)
RunInitOps(ops, hs, ps, pluginName) ==
  IF ops = <<>> THEN [hooks |-> hs, plugins |-> ps]
  ELSE LET r == ApplyInitOp(Head(ops), hs, ps, pluginName)
       IN RunInitOps(Tail(ops), r.hooks, r.plugins, pluginName)

\* for (const [hookName, handler] of Object.entries(plugin.hooks)) addHook(...)
RECURSIVE AddDescriptorHooks(_, _, _)
AddDescriptorHooks(pairs, hs, pluginName) ==
  IF pairs = <<>> THEN hs
  ELSE AddDescriptorHooks(Tail(pairs),
                          AddHookTo(hs, pairs[1][1], pairs[1][2], pluginName),
                          pluginName)

\* The record registerPlugin stores for a descriptor.
StoredPlugin(desc) ==
  [name |-> desc.name,
   version |-> IF desc.version = "undefined" THEN "1.0.0" ELSE desc.version,
   description |-> IF desc.description = "undefined" THEN "" ELSE desc.description,
   enabled |-> TRUE,
   config |-> desc.config,
   instance |-> "null"]

RegisterOutcome(ret, ps, hs, initCalled, atInit, atThrow) ==
  [ret |-> ret, plugins |-> ps, hooks |-> hs, initCalled |-> initCalled,
   atInit |-> atInit, atThrow |-> atThrow]

\* registerPlugin from `plugins.set` on: store, add the hooks, run init.
RegisterFresh(ps, hs, desc) ==
  LET ps1 == PluginsSet(ps, StoredPlugin(desc))
      hs1 == AddDescriptorHooks(desc.hooks, hs, desc.name)
  IN IF ~desc.init.defined
     THEN RegisterOutcome("true", ps1, hs1, FALSE, EmptyMap, EmptyMap)
     ELSE LET r == RunInitOps(desc.init.ops, hs1, ps1, desc.name)
          IN IF desc.init.throws
             THEN \* caught and logged; instance keeps its null
                  RegisterOutcome("true", r.plugins, r.hooks, TRUE, hs1, r.hooks)
             ELSE RegisterOutcome("true",
                    [r.plugins EXCEPT ![PluginIndex(r.plugins, desc.name)].instance =
                       desc.init.value],
                    r.hooks, TRUE, hs1, EmptyMap)

\* registerPlugin that undoes the registration when init throws.
RegisterRollsBack(ps, hs, desc) ==
  IF desc.name = ""
  THEN RegisterOutcome("throw", ps, hs, FALSE, EmptyMap, EmptyMap)
  ELSE IF HasPlugin(ps, desc.name)
  THEN RegisterOutcome("false", ps, hs, FALSE, EmptyMap, EmptyMap)
  ELSE LET r == RegisterFresh(ps, hs, desc)
       IN IF desc.init.defined /\ desc.init.throws
          THEN RegisterOutcome("false", ps, hs, TRUE, r.atInit, r.atThrow)
          ELSE r

\* registerPlugin that calls init before it adds the descriptor's hooks.
RegisterInitFirst(ps, hs, desc) ==
  IF desc.name = ""
  THEN RegisterOutcome("throw", ps, hs, FALSE, EmptyMap, EmptyMap)
  ELSE IF HasPlugin(ps, desc.name)
  THEN RegisterOutcome("false", ps, hs, FALSE, EmptyMap, EmptyMap)
  ELSE LET r == RegisterFresh(ps, hs, [desc EXCEPT !.hooks = <<>>])
       IN [r EXCEPT !.hooks = AddDescriptorHooks(desc.hooks, r.hooks, desc.name)]

\* registerPlugin without the check for a registered name.
RegisterSkipsDuplicateCheck(ps, hs, desc) ==
  IF desc.name = ""
  THEN RegisterOutcome("throw", ps, hs, FALSE, EmptyMap, EmptyMap)
  ELSE RegisterFresh(ps, hs, desc)

\* registerPlugin(plugin): the outcome and the registry it leaves.
RegisterResult(ps, hs, desc) ==
  IF desc.name = ""
  THEN RegisterOutcome("throw", ps, hs, FALSE, EmptyMap, EmptyMap)
  ELSE IF HasPlugin(ps, desc.name)
  THEN RegisterOutcome("false", ps, hs, FALSE, EmptyMap, EmptyMap)
  ELSE RegisterFresh(ps, hs, desc)

\* getPlugins(): Array.from(plugins.values())
GetPlugins(ps) == ps

\* unregisterPlugin that deletes the plugin and leaves the hook arrays alone.
UnregisterKeepsHooks(hs, name) == hs

\* unregisterPlugin(name): every array is replaced by its filtered copy
UnregisterHooks(hs, name) ==
  [k \in DOMAIN hs |-> Renumber(SelectSeq(hs[k], LAMBDA h : h.plugin # name))]

\* ------------------------------------------------------------- host bridge
\* Number of bytes of the guest's linear memory.
MemSize == 3

\* Largest number of characters of a text handed to writeCString.
MaxTextLen == 2

\* Byte values a memory cell starts with: zero, 'a', and the lead and the
\* continuation byte of a two-byte UTF-8 sequence.
ByteValues == {0, 97, 195, 169}

\* Characters of a text, as code points: 'a', U+00E9 (two bytes in UTF-8) and
\* U+0000.
CodePoints == {97, 233, 0}

Texts == UNION {[1..n -> CodePoints] : n \in 0..MaxTextLen}

\* A pointer as the host receives it: a signed number, possibly before the
\* start or at the end of the memory.
Pointers == -1..MemSize

MaxLens == 0..(MemSize + 1)

Min(a, b) == IF a < b THEN a ELSE b

Max(a, b) == IF a > b THEN a ELSE b

\* new Uint8Array(memory.buffer).length
ByteLength(bytes) == Cardinality(DOMAIN bytes)

\* TextEncoder.encode for code points below U+0800
EncodeCodePoint(cp) ==
  IF cp < 128 THEN <<cp>> ELSE <<192 + (cp \div 64), 128 + (cp % 64)>>

RECURSIVE TextEncode(_)
TextEncode(str) ==
  IF str = <<>> THEN <<>> ELSE EncodeCodePoint(Head(str)) \o TextEncode(Tail(str))

\* TextDecoder.decode for bytes below 0xE0: a byte that does not start a
\* well-formed sequence decodes to U+FFFD.
RECURSIVE TextDecode(_)
TextDecode(b) ==
  IF b = <<>> THEN <<>>
  ELSE IF b[1] < 128 THEN <<b[1]>> \o TextDecode(Tail(b))
  ELSE IF b[1] \in 194..223 /\ Len(b) >= 2 /\ b[2] \in 128..191
       THEN <<(b[1] - 192) * 64 + (b[2] - 128)>> \o TextDecode(Tail(Tail(b)))
  ELSE <<65533>> \o TextDecode(Tail(b))

\* while (bytes[end] !== 0 && end < bytes.length) end++
\* (bytes[end] is undefined, hence !== 0, outside the array)
RECURSIVE ScanEnd(_, _)
ScanEnd(bytes, end) ==
  IF (end \notin DOMAIN bytes \/ bytes[end] # 0) /\ end < ByteLength(bytes)
  THEN ScanEnd(bytes, end + 1)
  ELSE end

\* Uint8Array.prototype.subarray index: a negative index counts from the end,
\* and the result is clamped to the array.
RelativeIndex(bytes, i) ==
  IF i < 0 THEN Max(ByteLength(bytes) + i, 0) ELSE Min(i, ByteLength(bytes))

\* bytes.subarray(begin, end) as a sequence
Subarray(bytes, begin, end) ==
  LET from == RelativeIndex(bytes, begin)
      to == RelativeIndex(bytes, end)
  IN [k \in 1..Max(to - from, 0) |-> bytes[from + k - 1]]

ReadCString(bytes, ptr) == TextDecode(Subarray(bytes, ptr, ScanEnd(bytes, ptr)))

\* writeCString that keeps maxLen content bytes instead of maxLen - 1.
WriteCStringOffByOne(bytes, ptr, str, maxLen) ==
  LET encoded == TextEncode(str)
      len == Min(Len(encoded), maxLen)
  IN [memory |-> [a \in DOMAIN bytes |->
                    IF a = ptr + len THEN 0
                    ELSE IF a - ptr \in 0..(len - 1) THEN encoded[a - ptr + 1]
                    ELSE bytes[a]],
      ret |-> len]

\* writeCString: the memory after the call and the returned length.  A store
\* to an index outside the array is ignored.
WriteCString(bytes, ptr, str, maxLen) ==
  LET encoded == TextEncode(str)
      len == Min(Len(encoded), maxLen - 1)
  IN [memory |-> [a \in DOMAIN bytes |->
                    IF a = ptr + len THEN 0
                    ELSE IF a - ptr \in 0..(len - 1) THEN encoded[a - ptr + 1]
                    ELSE bytes[a]],
      ret |-> len]

NoCStr ==
  [op |-> "none", ptr |-> 0, str |-> <<>>, maxLen |-> 0, ret |-> 0,
   out |-> <<>>, afterWrite |-> FALSE]

\* ------------------------------------------------------------- guest heap
\* Width of the C type int, scaled down.
IntBits == 4

\* sizeof(heap), scaled down.
HeapSize == 4

\* Largest number of wasm_alloc calls between two resets.
MaxAllocs == 3

IntMax == 2^(IntBits - 1) - 1

IntMin == -(2^(IntBits - 1))

\* Two's complement wrap-around of a sum of two ints.
WrapInt(n) == ((n - IntMin) % 2^IntBits) + IntMin

\* Sizes passed to wasm_alloc: negative, small, and the largest int.
Sizes == {-1, 1, 2, IntMax}

NullPtr == [null |-> TRUE, offset |-> 0]

\* &heap[offset]
HeapPtr(offset) == [null |-> FALSE, offset |-> offset]

\* wasm_alloc: the returned pointer and the new heap_offset.  The sum
\* heap_offset + size of the bound check may overflow int, which the C
\* standard leaves undefined: wraps says whether the build compares the
\* wrapped sum or the exact one.  The stored sum wraps (i32.add).
WasmAlloc(offset, size, wraps) ==
  LET sum == offset + size
      tooBig == IF wraps THEN WrapInt(sum) > HeapSize ELSE sum > HeapSize
  IN IF tooBig THEN [ret |-> NullPtr, offset |-> offset]
     ELSE [ret |-> HeapPtr(offset), offset |-> WrapInt(sum)]

\* wasm_free: heap_offset after the call
WasmFree(offset) == offset

\* wasm_reset_heap that leaves the offset where it is.
WasmResetKeepsOffset(offset) == offset

\* wasm_reset_heap: heap_offset after the call
WasmResetHeap(offset) == 0

NoHeapCall == [op |-> "none", size |-> 0, ret |-> NullPtr]

HeapIdle ==
  /\ heap_offset = 0
  /\ heapCall = NoHeapCall
  /\ allocs = <<>>
  /\ earlier = <<>>
  /\ checkWraps = TRUE

CStringIdle ==
  /\ memory = [a \in 0..(MemSize - 1) |-> 0]
  /\ cstr = NoCStr

\* ------------------------------------------------------------- requests
\* Largest number of strings a guest entry point emits.
MaxEmit == 2

\* The worker with KV content and callWasmRender, and the minimal bootloader.
Workers == {"part_001", "part_002"}

RequestIds == {1, 2}

\* Request paths: the guest routes of both workers and one unknown path.
Paths == {"/", "/about", "/plugins", "/raw", "/missing"}

RenderExports ==
  {"render_home", "render_about", "render_plugins", "render_raw", "render_404"}

\* The guest modules served: with or without the render exports and main,
\* well-formed or not.
Modules ==
  [valid : BOOLEAN,
   exports : {{}, {"main"}, RenderExports, RenderExports \cup {"main"}}]

\* A string is a sequence of characters.
EmittedStrings == {<<"a">>, <<"b", "c">>}

\* What an entry point does for one request: the strings it emits through
\* js_print_string, js_print_number and puts, and whether it then traps.
Scripts ==
  [emits : UNION {[1..n -> EmittedStrings] : n \in 0..MaxEmit}, traps : BOOLEAN]

\* Array.prototype.join
RECURSIVE Join(_, _)
Join(list, sep) ==
  IF list = <<>> THEN <<>>
  ELSE IF Len(list) = 1 THEN list[1]
  ELSE list[1] \o sep \o Join(Tail(list), sep)

\* The render export of a route.
RenderExport(path) ==
  CASE path = "/" -> "render_home"
    [] path = "/about" -> "render_about"
    [] path = "/plugins" -> "render_plugins"
    [] path = "/raw" -> "render_raw"
    [] OTHER -> "render_404"

\* Routes that part_001 answers through callWasmRender, outside the try block.
ViaCallWasmRender(w, path) == w = "part_001" /\ path \in {"/", "/about"}

\* The export the handler calls: the route's render export, else main, except
\* on /raw, which has no else branch.
EntryPoint(path, exports) ==
  IF RenderExport(path) \in exports THEN RenderExport(path)
  ELSE IF path # "/raw" /\ "main" \in exports THEN "main"
  ELSE "none"

\* The response body built from the collected strings.
ResponseBody(path, buffer) ==
  IF path = "/raw" THEN Join(buffer, <<"LF">>) \o <<"LF">> ELSE Join(buffer, <<>>)

ResponseStatus(path) ==
  IF path \in {"/", "/about", "/plugins", "/raw"} THEN 200 ELSE 404

\* `NERD CMS Error: ${error.message}\n${error.stack}`
DiagnosticBody == <<"NERD CMS Error: ", "message", "LF", "stack">>

NoResponse == [kind |-> "none", status |-> 0, body |-> <<>>]

NoRequest ==
  [pc |-> "idle", path |-> "", script |-> [emits |-> <<>>, traps |-> FALSE],
   entry |-> "none", collected |-> <<>>, failed |-> FALSE, response |-> NoResponse,
   route |-> ""]

\* The handler from the point where WebAssembly.instantiate settles to its
\* return: the entry point called, the strings in the buffer the response is
\* built from, and the response.  shared is the module-level outputBuffer
\* (part_002); part_001 collects into an array of its own.
HandleGuest(w, module, own, route, script, shared) ==
  LET entry == IF module.valid THEN EntryPoint(route, module.exports) ELSE "none"
      emitted == IF entry = "none" THEN <<>> ELSE script.emits
      collected == (IF w = "part_002" THEN shared ELSE <<>>) \o emitted
      failed == ~module.valid \/ (entry # "none" /\ script.traps)
      response ==
        IF ~failed
        THEN [kind |-> "page", status |-> ResponseStatus(route),
              body |-> ResponseBody(route, collected)]
        ELSE IF ViaCallWasmRender(w, own)
        THEN [kind |-> "unhandled", status |-> 0, body |-> <<>>]
        ELSE [kind |-> "diagnostic", status |-> 500, body |-> DiagnosticBody]
  IN [entry |-> entry, collected |-> collected, failed |-> failed,
      response |-> response]

\* ------------------------------------------------------------- shared buffer
\* The size writeCString is given for the shared buffer (65536), scaled down.
SharedBufferSize == 2

\* Titles and bodies of posts.
PostTexts == {<<97>>, <<233>>}

NullData == [kind |-> "null", parts |-> <<>>]

\* The data callWasmRender is handed: null, a string, a list of posts or one
\* post (its title and its html).
Payloads ==
  {NullData}
    \cup {[kind |-> "string", parts |-> <<str>>] : str \in Texts}
    \cup {[kind |-> "array", parts |-> ps] :
            ps \in UNION {[1..n -> PostTexts] : n \in 0..1}}
    \cup {[kind |-> "object", parts |-> <<t, h>>] : t \in PostTexts, h \in PostTexts}

\* `if (data && ...`: null and the empty string are falsy, an empty array
\* is not.
Truthy(data) ==
  /\ data.kind # "null"
  /\ ~(data.kind = "string" /\ data.parts[1] = <<>>)

\* The list item of one post, its markup reduced to '<' and '>'.
ListItem(p) == <<60>> \o p \o <<62>>

\* dataStr: the string itself, the list items joined, or the post's heading
\* followed by its html.
DataStr(data) ==
  CASE data.kind = "string" -> data.parts[1]
    [] data.kind = "array" ->
         Join([i \in 1..Len(data.parts) |-> ListItem(data.parts[i])], <<>>)
    [] OTHER -> <<60>> \o data.parts[1] \o <<62>> \o data.parts[2]

\* The export callWasmRender invokes: exportName, else main.
RenderEntry(exports, exportName) ==
  IF exportName \in exports THEN <<exportName>>
  ELSE IF "main" \in exports THEN <<"main">>
  ELSE <<>>

\* callWasmRender that invokes the entry point before it fills the buffer.
CallWasmRenderEntryFirst(exports, data, exportName) ==
  <<"instantiate">>
    \o (IF "wasm_reset_heap" \in exports THEN <<"wasm_reset_heap">> ELSE <<>>)
    \o RenderEntry(exports, exportName)
    \o (IF Truthy(data) /\ "wasm_get_shared_buffer" \in exports
        THEN <<"wasm_get_shared_buffer", "writeCString">> ELSE <<>>)

\* The calls callWasmRender makes on the instance, in program order.
CallWasmRenderSteps(exports, data, exportName) ==
  <<"instantiate">>
    \o (IF "wasm_reset_heap" \in exports THEN <<"wasm_reset_heap">> ELSE <<>>)
    \o (IF Truthy(data) /\ "wasm_get_shared_buffer" \in exports
        THEN <<"wasm_get_shared_buffer", "writeCString">> ELSE <<>>)
    \o RenderEntry(exports, exportName)

\* The instance's state as the calls go by: wasm_reset_heap sets the offset,
\* writeCString stores the payload at the pointer, and the entry point finds
\* the memory as it is when it is invoked.
RECURSIVE RunSteps(_, _, _, _)
RunSteps(steps, acc, ptr, str) ==
  IF steps = <<>> THEN acc
  ELSE LET step == Head(steps)
           next ==
             CASE step = "writeCString" ->
                    [acc EXCEPT !.memory =
                       WriteCString(acc.memory, ptr, str, SharedBufferSize).memory,
                                !.wrote = TRUE]
               [] step = "wasm_reset_heap" ->
                    [acc EXCEPT !.heap_offset = WasmResetHeap(acc.heap_offset)]
               [] step \notin {"instantiate", "wasm_get_shared_buffer"} ->
                    [acc EXCEPT !.seen = acc.memory, !.entry = step]
               [] OTHER -> acc
       IN RunSteps(Tail(steps), next, ptr, str)

NoRender ==
  [pc |-> "idle", data |-> NullData, exportName |-> "", bufferPtr |-> 0,
   steps |-> <<>>, before |-> [a \in 0..(MemSize - 1) |-> 0],
   memory |-> [a \in 0..(MemSize - 1) |-> 0],
   seen |-> [a \in 0..(MemSize - 1) |-> 0], entry |-> "none", wrote |-> FALSE,
   heap_offset |-> 0]

RequestIdle ==
  /\ worker = "part_001"
  /\ wasmModule = [valid |-> TRUE, exports |-> RenderExports \cup {"main"}]
  /\ outputBuffer = <<>>
  /\ currentPath = "/"
  /\ reqs = [r \in RequestIds |-> NoRequest]
  /\ render = NoRender

HostIdle ==
  /\ CStringIdle
  /\ HeapIdle
  /\ RequestIdle

PluginsIdle ==
  /\ plugins = <<>>
  /\ hooks = EmptyMap
  /\ lastCall = NoCall

\* ------------------------------------------------------------- suspension
\* An executeHooks call: the array its iterator walks (live while it is still
\* the array stored in the map), the index of the element the iterator
\* yields next, `result`, and the invocations made so far (outcome "pending"
\* until the promise settles).  History fields: the number of calls that
\* changed the hook point's list since the call began, and the list before
\* the first and after the last of them.
NoRun ==
  [active |-> FALSE, returned |-> FALSE, hook |-> "", live |-> FALSE,
   list |-> <<>>, next |-> 1, data |-> <<>>, result |-> <<>>, calls |-> <<>>,
   mutations |-> 0, pre |-> <<>>, post |-> <<>>]

\* The invocations whose promise has not settled.
InProgress(rn) == {i \in 1..Len(rn.calls) : rn.calls[i].outcome = "pending"}

\* A loop that invokes every remaining handler without awaiting the one
\* before.
RECURSIVE LoopNoAwait(_, _)
LoopNoAwait(rn, ps) ==
  IF rn.next > Len(rn.list)
  THEN IF InProgress(rn) = {} THEN [rn EXCEPT !.active = FALSE, !.returned = TRUE] ELSE rn
  ELSE IF SkipsEntry(ps, rn.list[rn.next])
       THEN LoopNoAwait([rn EXCEPT !.next = @ + 1], ps)
       ELSE LoopNoAwait([rn EXCEPT !.next = @ + 1,
                                   !.calls = Append(@, CallRecord(rn.list[rn.next],
                                                                  rn.result, "pending"))], ps)

\* The for-of loop of executeHooks from the iterator's position up to the
\* next `await handler(result, context)`, or to `return result`.
RECURSIVE LoopFrom(_, _)
LoopFrom(rn, ps) ==
  IF rn.next > Len(rn.list)
  THEN [rn EXCEPT !.active = FALSE, !.returned = TRUE]
  ELSE IF SkipsEntry(ps, rn.list[rn.next])
       THEN LoopFrom([rn EXCEPT !.next = @ + 1], ps)
       ELSE [rn EXCEPT !.next = @ + 1,
                       !.calls = Append(@, CallRecord(rn.list[rn.next],
                                                      rn.result, "pending"))]

\* executeHooks(hookName, data, context) up to its first await or its return
BeginHooks(ps, hs, hookName, data) ==
  IF hookName \notin DOMAIN hs
  THEN [NoRun EXCEPT !.returned = TRUE, !.hook = hookName, !.data = data,
                     !.result = data]
  ELSE LoopFrom([NoRun EXCEPT !.active = TRUE, !.hook = hookName, !.live = TRUE,
                              !.list = hs[hookName], !.data = data,
                              !.result = data], ps)

\* The promise of invocation i settles: the rest of the loop body, then the
\* loop up to the next await.
SettleCall(rn, ps, i, outcome, value) ==
  LET settled == [rn EXCEPT !.calls[i].outcome = outcome,
                            !.result = IF outcome = "value" THEN value ELSE @]
  IN IF InProgress(settled) = {} THEN LoopFrom(settled, ps) ELSE settled

\* One change of the hook arrays.
ListOp(op, hookName, handler, pluginName) ==
  [op |-> op, hook |-> hookName, handler |-> handler, plugin |-> pluginName]

\* What one change does to the array a suspended call iterates: addHook
\* pushes to and sorts the array in place; removeHook and unregisterPlugin
\* store a filtered copy and leave the iterated array as it was.
ViewStep(v, op) ==
  CASE op.op = "addHook" ->
         IF v.live /\ v.hook = op.hook
         THEN [v EXCEPT !.list = AddHookTo([k \in {op.hook} |-> v.list], op.hook,
                                           op.handler, op.plugin)[op.hook]]
         ELSE v
    [] op.op = "removeHook" ->
         IF v.hook = op.hook THEN [v EXCEPT !.live = FALSE] ELSE v
    [] op.op = "unregisterPlugin" -> [v EXCEPT !.live = FALSE]
    [] OTHER -> v

RECURSIVE ViewAfter(_, _)
ViewAfter(v, ops) ==
  IF ops = <<>> THEN v ELSE ViewAfter(ViewStep(v, Head(ops)), Tail(ops))

\* The call in flight after a registry call that made the changes ops and
\* took the hook map from hs to hs2.
RunAfter(rn, ops, hs, hs2) ==
  IF ~rn.active THEN rn
  ELSE LET changed == hs2[rn.hook] # hs[rn.hook]
       IN [ViewAfter(rn, ops) EXCEPT
             !.mutations = IF changed THEN Min(@ + 1, 2) ELSE @,
             !.pre = IF changed /\ rn.mutations = 0 THEN hs[rn.hook] ELSE @,
             !.post = IF changed THEN hs2[rn.hook] ELSE @]

\* The changes registerPlugin makes: addHook for each entry of the
\* descriptor's hooks, then those of init.
RegisterOps(ps, desc) ==
  IF desc.name = "" \/ HasPlugin(ps, desc.name) THEN <<>>
  ELSE [i \in 1..Len(desc.hooks) |->
          ListOp("addHook", desc.hooks[i][1], desc.hooks[i][2], desc.name)]
       \o (IF desc.init.defined
           THEN [i \in 1..Len(desc.init.ops) |->
                   ListOp(desc.init.ops[i].op, desc.init.ops[i].hook,
                          desc.init.ops[i].handler, desc.name)]
           ELSE <<>>)

\* ------------------------------------------------------------- pipeline
\* The request served by the hooks pipeline: where fetch is suspended, the
\* page rendered so far, and the waterfalls completed for it, in order.
NoPipe ==
  [pc |-> "idle", path |-> "", html |-> <<>>, status |-> 0, trace |-> <<>>,
   response |-> NoResponse, cached |-> FALSE]

\* ------------------------------------------------------------- cache plugin
\* config.ttl of the cache plugin, in seconds (60), scaled down.
CacheTtl == 2

\* Largest value of the clock, in seconds.
MaxClock == 3

\* new Map()
EmptyCache == <<>>

\* What cache.get returns for a key that is not in the Map.
NoEntry == [present |-> FALSE, data |-> <<>>, time |-> 0]

\* cache.get(path)
CacheGet(c, path) == IF path \in DOMAIN c THEN c[path] ELSE NoEntry

\* cache.set(path, { data, time })
CacheSet(c, path, data, time) ==
  [k \in DOMAIN c \cup {path} |->
     IF k = path THEN [present |-> TRUE, data |-> data, time |-> time] ELSE c[k]]

\* plugins.get('cache')?.instance?.cache
HasCache(ps) == HasPlugin(ps, "cache") /\ GetPlugin(ps, "cache").instance = "cache"

\* Date.now() - cached.time < plugin.config.ttl * 1000
Unexpired(ps, entry, t) ==
  t * 1000 - entry.time * 1000 < GetPlugin(ps, "cache").config.ttl * 1000

\* One invocation of a handler with its context: the value it returns, the
\* context's `cached` property and the cache afterwards.  cacheStart and
\* cacheStore are the request:start and the request:end handler of the cache
\* plugin; the other handlers touch neither the context nor the cache.
HandlerCall(handler, data, ctx, ps, c, t) ==
  CASE handler = "cacheStart" ->
         IF HasCache(ps) /\ CacheGet(c, ctx.path).present
                         /\ Unexpired(ps, CacheGet(c, ctx.path), t)
         THEN [value |-> CacheGet(c, ctx.path).data, cached |-> TRUE, cache |-> c]
         ELSE [value |-> data, cached |-> ctx.cached, cache |-> c]
    [] handler = "cacheStore" ->
         [value |-> data, cached |-> ctx.cached,
          cache |-> IF ~ctx.cached /\ HasCache(ps)
                    THEN CacheSet(c, ctx.path, data, t) ELSE c]
    [] OTHER -> [value |-> HandlerValue(handler, data), cached |-> ctx.cached,
                 cache |-> c]

AsyncIdle ==
  /\ run = NoRun
  /\ pipe = NoPipe
  /\ cache = EmptyCache
  /\ now = 0

\* ------------------------------------------------------------- actions
Init ==
  /\ plugins = <<>>
  /\ hooks = EmptyMap
  /\ lastCall = NoCall
  /\ AsyncIdle
  /\ HostIdle

AddHook(hookName, handler, pluginName) ==
  /\ TotalEntries(hooks) < MaxEntries
  /\ hooks' = AddHookTo(hooks, hookName, handler, pluginName)
  /\ lastCall' = [NoCall EXCEPT !.op = "addHook", !.hook = hookName,
                                !.handler = handler,
                                !.name = pluginName, !.ret = "undefined"]
  /\ run' = RunAfter(run, <<ListOp("addHook", hookName, handler, pluginName)>>,
                     hooks, hooks')
  /\ UNCHANGED <<plugins, pipe, cache, now>>
  /\ UNCHANGED hostVars

RemoveHook(hookName, handler) ==
  /\ hooks' = RemoveHookFrom(hooks, hookName, handler)
  /\ lastCall' = [NoCall EXCEPT !.op = "removeHook", !.hook = hookName,
                                !.handler = handler, !.ret = "undefined"]
  /\ run' = RunAfter(run, <<ListOp("removeHook", hookName, handler, "")>>,
                     hooks, hooks')
  /\ UNCHANGED <<plugins, pipe, cache, now>>
  /\ UNCHANGED hostVars

RegisterPlugin(desc) ==
  LET r == RegisterResult(plugins, hooks, desc)
  IN /\ TotalEntries(r.hooks) <= MaxEntries
     /\ r.initCalled => TotalEntries(r.atInit) <= MaxEntries
     /\ plugins' = r.plugins
     /\ hooks' = r.hooks
     /\ lastCall' = [NoCall EXCEPT !.op = "registerPlugin", !.name = desc.name,
                                   !.desc = desc, !.ret = r.ret,
                                   !.initCalled = r.initCalled,
                                   !.atInit = r.atInit, !.atThrow = r.atThrow]
     /\ run' = RunAfter(run, RegisterOps(plugins, desc), hooks, hooks')
     /\ UNCHANGED <<pipe, cache, now>>
     /\ UNCHANGED hostVars

\* The (hook, handler) pairs of the entries owned by name.
OwnedPairs(hs, name) ==
  {<<k, h>> \in HookNames \X Handlers :
     k \in DOMAIN hs /\ \E i \in 1..Len(hs[k]) :
                          hs[k][i].handler = h /\ hs[k][i].plugin = name}

UnregisterPlugin(name) ==
  /\ IF HasPlugin(plugins, name)
     THEN /\ hooks' = UnregisterHooks(hooks, name)
          /\ plugins' = PluginsDelete(plugins, name)
     ELSE UNCHANGED <<plugins, hooks>>
  /\ lastCall' =
       [NoCall EXCEPT
          !.op = "unregisterPlugin", !.name = name,
          !.ret = IF HasPlugin(plugins, name) THEN "true" ELSE "false",
          !.removed = IF HasPlugin(plugins, name) THEN OwnedPairs(hooks, name) ELSE {}]
  /\ run' = RunAfter(run, IF HasPlugin(plugins, name)
                          THEN <<ListOp("unregisterPlugin", "", "", name)>>
                          ELSE <<>>, hooks, hooks')
  /\ UNCHANGED <<pipe, cache, now>>
  /\ UNCHANGED hostVars

\* setPluginEnabled that also clears the plugin's stored configuration.
SetEnabledClearsConfig(ps, name, enabled) ==
  IF HasPlugin(ps, name)
  THEN [ps EXCEPT ![PluginIndex(ps, name)].enabled = enabled,
                  ![PluginIndex(ps, name)].config = EmptyMap]
  ELSE ps

\* setPluginEnabled: the plugin map after the call; only a registered
\* plugin's enabled field is assigned.
SetEnabledIn(ps, name, enabled) ==
  IF HasPlugin(ps, name)
  THEN [ps EXCEPT ![PluginIndex(ps, name)].enabled = enabled]
  ELSE ps

\* What executeHooks would invoke on each hook point that has a list.
InvokedNow(ps, hs) ==
  [k \in DOMAIN hs |->
     WaterfallFrom(ps, hs[k], [i \in 1..Len(hs[k]) |-> "undef"], 1, Data0, <<>>).calls]

SetPluginEnabled(name, enabled) ==
  /\ plugins' = SetEnabledIn(plugins, name, enabled)
  /\ lastCall' =
       [NoCall EXCEPT
          !.op = "setPluginEnabled", !.name = name, !.enabled = enabled,
          !.ret = IF HasPlugin(plugins, name) THEN "true" ELSE "false",
          \* history: what ran before an enabled plugin was disabled, carried
          \* over to the call that enables it again right afterwards
          !.tracked =
            /\ HasPlugin(plugins, name)
            /\ \/ ~enabled /\ GetPlugin(plugins, name).enabled
               \/ enabled /\ lastCall.op = "setPluginEnabled" /\ lastCall.name = name
                          /\ ~lastCall.enabled /\ lastCall.tracked,
          !.before =
            IF ~HasPlugin(plugins, name) THEN EmptyMap
            ELSE IF ~enabled /\ GetPlugin(plugins, name).enabled
                 THEN InvokedNow(plugins, hooks)
            ELSE IF enabled /\ lastCall.op = "setPluginEnabled" /\ lastCall.name = name
                    /\ ~lastCall.enabled /\ lastCall.tracked
                 THEN lastCall.before
            ELSE EmptyMap]
  /\ UNCHANGED hooks
  /\ UNCHANGED <<asyncVars, hostVars>>

\* executeHooks that disables the plugin of a handler that throws.
ExecuteHooksDisablesFailing(hookName, data, out) ==
  LET r == RunHooks(plugins, hooks, hookName, data, out)
      failing == {r.calls[i].plugin : i \in {j \in 1..Len(r.calls) : r.calls[j].outcome = "throw"}}
  IN /\ lastCall' = [NoCall EXCEPT !.op = "executeHooks", !.hook = hookName,
                                   !.data = data, !.out = out,
                                   !.ret = IF r.threw THEN "throw" ELSE "value",
                                   !.result = r.result, !.calls = r.calls]
     /\ plugins' = [i \in 1..Len(plugins) |->
                      IF plugins[i].name \in failing
                      THEN [plugins[i] EXCEPT !.enabled = FALSE] ELSE plugins[i]]
     /\ UNCHANGED hooks
     /\ UNCHANGED <<asyncVars, hostVars>>

ExecuteHooks(hookName, data, out) ==
  LET r == RunHooks(plugins, hooks, hookName, data, out)
  IN /\ lastCall' = [NoCall EXCEPT !.op = "executeHooks", !.hook = hookName,
                                   !.data = data, !.out = out,
                                   !.ret = IF r.threw THEN "throw" ELSE "value",
                                   !.result = r.result, !.calls = r.calls]
     /\ UNCHANGED <<plugins, hooks>>
     /\ UNCHANGED <<asyncVars, hostVars>>

ExecuteHooksSync(hookName, data, out) ==
  LET r == RunHooksSync(plugins, hooks, hookName, data, out)
  IN /\ lastCall' = [NoCall EXCEPT !.op = "executeHooksSync", !.hook = hookName,
                                   !.data = data, !.out = out,
                                   !.ret = IF r.threw THEN "throw" ELSE "value",
                                   !.result = r.result, !.calls = r.calls]
     /\ UNCHANGED <<plugins, hooks>>
     /\ UNCHANGED <<asyncVars, hostVars>>

\* ------------------------------------------------------------- descriptors
\* Capability calls an init function makes.
OpAddHook == [op |-> "addHook", hook |-> "request:start", handler |-> "h5", config |-> EmptyMap]

OpRemoveHook == [op |-> "removeHook", hook |-> "template:after", handler |-> "h5", config |-> EmptyMap]

OpSetConfig == [op |-> "setConfig", hook |-> "", handler |-> "", config |-> [ttl |-> 30]]

NoInit == [defined |-> FALSE, ops |-> <<>>, throws |-> FALSE, value |-> "undefined"]

\* init functions: the capability calls made, then a return or a throw
InitFunctions ==
  {NoInit} \cup
  [defined : {TRUE}, ops : {<<>>, <<OpAddHook>>, <<OpRemoveHook>>},
   throws : BOOLEAN, value : {"inst"}]
  \cup {[defined |-> TRUE, ops |-> <<OpSetConfig>>, throws |-> FALSE, value |-> "inst"]}

\* Object.entries of the `hooks` mapping of a descriptor: distinct keys.
DescriptorHooks ==
  {<<>>,
   <<<<"template:after", "h5">>>>,
   <<<<"request:start", "h1">>, <<"template:after", "h5">>>>}

\* "seo" leaves version, description and config out; "cache" gives them;
\* the last descriptor has no name.
Descriptors ==
  [name : {"seo"}, version : {"undefined"}, description : {"undefined"},
   config : {EmptyMap}, hooks : DescriptorHooks, init : {NoInit}]
  \cup [name : {"seo"}, version : {"undefined"}, description : {"undefined"},
        config : {EmptyMap}, hooks : {<<<<"template:after", "h5">>>>},
        init : InitFunctions]
  \cup [name : {"cache"}, version : {"2.0.0"}, description : {"Response caching"},
        config : {[ttl |-> 60]}, hooks : {<<<<"template:after", "h5">>>>},
        init : {NoInit, [defined |-> TRUE, ops |-> <<>>, throws |-> FALSE, value |-> "inst"]}]
  \cup [name : {""}, version : {"undefined"}, description : {"undefined"},
        config : {EmptyMap}, hooks : {<<<<"template:after", "h5">>>>},
        init : {[defined |-> TRUE, ops |-> <<OpAddHook>>, throws |-> FALSE, value |-> "inst"]}]

\* Descriptors with a hooks mapping only.
PlainDescriptors == {d \in Descriptors : d.name = "seo" /\ d.init = NoInit}

\* ------------------------------------------------------------- specifications
\* Plugin lifecycle: full descriptors, handlers of priority 1 and 5.
Next ==
  \/ \E hookName \in HookNames, handler \in {"h1", "h5"} :
       AddHook(hookName, handler, "anonymous")
  \/ \E hookName \in HookNames, handler \in {"h1", "h5"} :
       RemoveHook(hookName, handler)
  \/ \E desc \in Descriptors : RegisterPlugin(desc)
  \/ \E name \in PluginNames : UnregisterPlugin(name)
  \/ \E name \in PluginNames, enabled \in BOOLEAN : SetPluginEnabled(name, enabled)
  \/ \E hookName \in HookNames : \E out \in OutcomeChoices(hooks, hookName) :
       ExecuteHooks(hookName, Data0, out)
  \/ \E hookName \in HookNames : \E out \in OutcomeChoices(hooks, hookName) :
       ExecuteHooksSync(hookName, Data0, out)

Spec == Init /\ [][Next]_vars

\* Handler ordering: every handler and owner, one plugin with plain descriptors.
NextOrder ==
  \/ \E hookName \in HookNames, handler \in Handlers, pluginName \in {"seo", "anonymous"} :
       AddHook(hookName, handler, pluginName)
  \/ \E hookName \in HookNames, handler \in Handlers :
       RemoveHook(hookName, handler)
  \/ \E desc \in PlainDescriptors : RegisterPlugin(desc)
  \/ UnregisterPlugin("seo")
  \/ \E enabled \in BOOLEAN : SetPluginEnabled("seo", enabled)
  \/ \E hookName \in HookNames : \E out \in OutcomeChoices(hooks, hookName) :
       ExecuteHooks(hookName, Data0, out)
  \/ \E hookName \in HookNames : \E out \in OutcomeChoices(hooks, hookName) :
       ExecuteHooksSync(hookName, Data0, out)

SpecOrder == Init /\ [][NextOrder]_vars

\* C strings in guest memory: one call on an arbitrary memory, and the read
\* that follows a write at the same pointer.
InitCString ==
  /\ PluginsIdle
  /\ AsyncIdle
  /\ HeapIdle
  /\ RequestIdle
  /\ memory \in [0..(MemSize - 1) -> ByteValues]
  /\ cstr = NoCStr

WriteCStringCall(ptr, str, maxLen) ==
  LET r == WriteCString(memory, ptr, str, maxLen)
  IN /\ cstr.op = "none"
     /\ memory' = r.memory
     /\ cstr' = [NoCStr EXCEPT !.op = "writeCString", !.ptr = ptr, !.str = str,
                               !.maxLen = maxLen, !.ret = r.ret]
     /\ UNCHANGED <<pluginVars, asyncVars, heapVars, requestVars>>

ReadCStringCall(ptr) ==
  /\ cstr.op = "none"
  /\ cstr' = [NoCStr EXCEPT !.op = "readCString", !.ptr = ptr,
                            !.out = ReadCString(memory, ptr)]
  /\ UNCHANGED <<memory, pluginVars, asyncVars, heapVars, requestVars>>

\* readCString at the pointer just written
ReadBackCall ==
  /\ cstr.op = "writeCString"
  /\ cstr' = [cstr EXCEPT !.op = "readCString", !.afterWrite = TRUE,
                          !.out = ReadCString(memory, cstr.ptr)]
  /\ UNCHANGED <<memory, pluginVars, asyncVars, heapVars, requestVars>>

NextCString ==
  \/ \E ptr \in Pointers, str \in Texts, maxLen \in MaxLens :
       WriteCStringCall(ptr, str, maxLen)
  \/ \E ptr \in Pointers : ReadCStringCall(ptr)
  \/ ReadBackCall

SpecCString == InitCString /\ [][NextCString]_vars

\* Guest allocator: allocations and resets on one instance.
InitHeap ==
  /\ PluginsIdle
  /\ AsyncIdle
  /\ CStringIdle
  /\ RequestIdle
  /\ heap_offset = 0
  /\ heapCall = NoHeapCall
  /\ allocs = <<>>
  /\ earlier = <<>>
  /\ checkWraps \in BOOLEAN

WasmAllocCall(size) ==
  LET r == WasmAlloc(heap_offset, size, checkWraps)
  IN /\ Len(allocs) < MaxAllocs
     /\ heap_offset' = r.offset
     /\ heapCall' = [op |-> "wasm_alloc", size |-> size, ret |-> r.ret]
     /\ allocs' = Append(allocs, [size |-> size, ret |-> r.ret])
     /\ UNCHANGED <<earlier, checkWraps, pluginVars, asyncVars, cstringVars, requestVars>>

WasmFreeCall ==
  /\ heapCall.op = "wasm_alloc"
  /\ heap_offset' = WasmFree(heap_offset)
  /\ heapCall' = [op |-> "wasm_free", size |-> 0, ret |-> heapCall.ret]
  /\ UNCHANGED <<allocs, earlier, checkWraps, pluginVars, asyncVars, cstringVars, requestVars>>

\* remember says whether the period that ends here is the one later
\* allocations are compared with.
WasmResetHeapCall(remember) ==
  /\ heap_offset' = WasmResetHeap(heap_offset)
  /\ heapCall' = [NoHeapCall EXCEPT !.op = "wasm_reset_heap"]
  /\ allocs' = <<>>
  /\ earlier' = IF remember THEN allocs ELSE earlier
  /\ UNCHANGED <<checkWraps, pluginVars, asyncVars, cstringVars, requestVars>>

NextHeap ==
  \/ \E size \in Sizes : WasmAllocCall(size)
  \/ WasmFreeCall
  \/ \E remember \in BOOLEAN : WasmResetHeapCall(remember)

SpecHeap == InitHeap /\ [][NextHeap]_vars

\* A request arrives: fetch runs up to `await WebAssembly.instantiate`.
FetchStart(r, path, script) ==
  /\ reqs[r].pc # "instantiating"
  /\ currentPath' = path
  /\ outputBuffer' = IF worker = "part_002" THEN <<>> ELSE outputBuffer
  /\ reqs' = [reqs EXCEPT ![r] = [NoRequest EXCEPT !.pc = "instantiating",
                                                   !.path = path, !.script = script]]
  /\ UNCHANGED <<worker, wasmModule, render, pluginVars, asyncVars, cstringVars, heapVars>>

\* The instantiation settles and fetch runs to its return.  The routes of
\* callWasmRender were chosen before the await; the others test currentPath
\* after it.
FetchResume(r) ==
  LET route == IF ViaCallWasmRender(worker, reqs[r].path) THEN reqs[r].path
               ELSE currentPath
      h == HandleGuest(worker, wasmModule, reqs[r].path, route, reqs[r].script,
                       outputBuffer)
  IN /\ reqs[r].pc = "instantiating"
     /\ outputBuffer' = IF worker = "part_002" THEN h.collected ELSE outputBuffer
     /\ reqs' = [reqs EXCEPT ![r].pc = "done", ![r].entry = h.entry, ![r].route = route,
                             ![r].collected = h.collected, ![r].failed = h.failed,
                             ![r].response = h.response]
     /\ UNCHANGED <<worker, wasmModule, currentPath, render, pluginVars, asyncVars, cstringVars, heapVars>>

\* Guest rendering: one request at a time, on either worker and any module.
InitRender ==
  /\ PluginsIdle
  /\ AsyncIdle
  /\ CStringIdle
  /\ HeapIdle
  /\ worker \in Workers
  /\ wasmModule \in Modules
  /\ outputBuffer = <<>>
  /\ currentPath = "/"
  /\ reqs = [r \in RequestIds |-> NoRequest]
  /\ render = NoRender

NextRender ==
  \/ \E path \in Paths, script \in Scripts : FetchStart(1, path, script)
  \/ FetchResume(1)

SpecRender == InitRender /\ [][NextRender]_vars

\* Two requests served concurrently by the minimal worker.
InitConcurrent ==
  /\ PluginsIdle
  /\ AsyncIdle
  /\ CStringIdle
  /\ HeapIdle
  /\ worker = "part_002"
  /\ wasmModule \in {m \in Modules : m.valid /\ "main" \in m.exports}
  /\ outputBuffer = <<>>
  /\ currentPath = "/"
  /\ reqs = [r \in RequestIds |-> NoRequest]
  /\ render = NoRender

NextConcurrent ==
  \/ \E r \in RequestIds, path \in {"/", "/about", "/missing"} :
       \E script \in {sc \in Scripts : ~sc.traps} : FetchStart(r, path, script)
  \/ \E r \in RequestIds : FetchResume(r)

SpecConcurrent == InitConcurrent /\ [][NextConcurrent]_vars

\* executeHooks is called: it runs up to its first await.
CallExecuteHooks(hookName, data) ==
  /\ ~run.active
  /\ run' = BeginHooks(plugins, hooks, hookName, data)
  /\ UNCHANGED <<pluginVars, pipe, cache, now>>
  /\ UNCHANGED hostVars

\* The promise of a handler in progress settles and executeHooks resumes.
HandlerSettles(outcome) ==
  /\ run.active
  /\ \E i \in InProgress(run) :
       /\ outcome \in HandlerOutcomes(run.calls[i].handler)
       /\ LET r == HandlerCall(run.calls[i].handler, run.calls[i].arg, pipe,
                               plugins, cache, now)
          IN /\ run' = SettleCall(run, plugins, i, outcome, r.value)
             /\ pipe' = [pipe EXCEPT !.cached = r.cached]
             /\ cache' = r.cache
  /\ UNCHANGED <<pluginVars, now>>
  /\ UNCHANGED hostVars

\* Registry calls made while an executeHooks call is suspended in a handler.
InitAsync ==
  /\ PluginsIdle
  /\ AsyncIdle
  /\ HostIdle

NextAsync ==
  \/ AddHook("template:after", "h1", "anonymous")
  \/ \E handler \in {"h1", "h5"} : RemoveHook("template:after", handler)
  \/ \E desc \in {d \in PlainDescriptors : d.hooks = <<<<"template:after", "h5">>>>} :
       RegisterPlugin(desc)
  \/ UnregisterPlugin("seo")
  \/ CallExecuteHooks("template:after", Data0)
  \/ \E outcome \in {"value", "throw"} : HandlerSettles(outcome)

SpecAsync == InitAsync /\ [][NextAsync]_vars

\* ------------------------------------------------------------- hooks pipeline
\* The hook points of one request, in the order fetch calls them.
PipelineHooks ==
  <<"request:start", "content:load", "route:match", "template:before",
    "template:after", "output:filter", "request:end">>

PipelinePaths ==
  {"/", "/about", "/plugins", "/blog/hello-world", "/raw", "/api/plugins", "/missing"}

\* path.startsWith("/blog")
StartsWithBlog(path) == path \in {"/blog", "/blog/hello-world"}

\* baseTemplate: the head of the page, then its content.
BaseTemplate(content) == <<"<head>", "</head>">> \o content

\* The page the route handling of the pipeline renders, and its status.
PipelineTemplate(path, buffer) ==
  CASE path \in {"/", ""} -> BaseTemplate(<<"home">> \o Join(buffer, <<" ">>))
    [] path = "/about" -> BaseTemplate(<<"about">>)
    [] path = "/plugins" -> BaseTemplate(<<"plugins">>)
    [] StartsWithBlog(path) ->
         BaseTemplate(<<"post", "<p>">> \o Join(buffer, <<"</p><p>">>) \o <<"</p>">>)
    [] OTHER -> BaseTemplate(<<"not-found">>)

PipelineStatus(path) ==
  IF path \in {"/", "", "/about", "/plugins"} \/ StartsWithBlog(path) THEN 200 ELSE 404

StatusToken(status) == IF status = 200 THEN "status:200" ELSE "status:404"

\* A pipeline that renders template:after from the page as it was before
\* template:before.
HookInputStale(hookName, p, rn, buffer) ==
  CASE hookName = "request:start" -> <<p.path>>
    [] hookName = "content:load" -> Join(buffer, <<"LF">>)
    [] hookName = "route:match" -> <<p.path, "matched">>
    [] hookName = "template:before" -> PipelineTemplate(p.path, buffer)
    [] hookName = "template:after" -> PipelineTemplate(p.path, buffer)
    [] hookName = "output:filter" -> rn.result
    [] OTHER -> Append(rn.result, StatusToken(p.status))

\* The data fetch passes to executeHooks for a hook point, rn being the
\* waterfall it awaited last.
HookInput(hookName, p, rn, buffer) ==
  CASE hookName = "request:start" -> <<p.path>>
    [] hookName = "content:load" -> Join(buffer, <<"LF">>)
    [] hookName = "route:match" -> <<p.path, "matched">>
    [] hookName = "template:before" -> PipelineTemplate(p.path, buffer)
    [] hookName = "template:after" -> rn.result
    [] hookName = "output:filter" -> rn.result
    [] OTHER -> Append(rn.result, StatusToken(p.status))

\* fetch returns a response.
Respond(p, kind, status, body) ==
  [p EXCEPT !.pc = "done", !.response = [kind |-> kind, status |-> status, body |-> body]]

\* fetch calls executeHooks for hookName and awaits it.
CallHook(p, rn, ps, hs, hookName, buffer) ==
  [pipe |-> [p EXCEPT !.pc = hookName],
   run |-> BeginHooks(ps, hs, hookName, HookInput(hookName, p, rn, buffer))]

\* fetch from the return of the waterfall rn it awaited to its next await or
\* its return.
AfterHook(p, rn, ps, hs, buffer) ==
  LET q == [p EXCEPT !.trace = Append(@, [hook |-> rn.hook, input |-> rn.data,
                                          result |-> rn.result, calls |-> rn.calls])]
  IN CASE p.pc = "request:start" ->
            IF "cached" \in Range(rn.result) /\ "html" \in Range(rn.result)
            THEN [pipe |-> Respond(q, "cached", 200, rn.result), run |-> rn]
            ELSE [pipe |-> [q EXCEPT !.pc = "instantiating"], run |-> rn]
       [] p.pc = "content:load" -> CallHook(q, rn, ps, hs, "route:match", buffer)
       [] p.pc = "route:match" ->
            IF p.path = "/raw"
            THEN [pipe |-> Respond(q, "raw", 200, Join(buffer, <<"LF">>) \o <<"LF">>),
                  run |-> rn]
            ELSE IF p.path = "/api/plugins"
            THEN [pipe |-> Respond(q, "json", 200, <<"plugins.json">>), run |-> rn]
            ELSE CallHook([q EXCEPT !.html = PipelineTemplate(p.path, buffer),
                                    !.status = PipelineStatus(p.path)],
                          rn, ps, hs, "template:before", buffer)
       [] p.pc = "template:before" ->
            CallHook([q EXCEPT !.html = rn.result], rn, ps, hs, "template:after", buffer)
       [] p.pc = "template:after" ->
            CallHook([q EXCEPT !.html = rn.result], rn, ps, hs, "output:filter", buffer)
       [] p.pc = "output:filter" ->
            CallHook([q EXCEPT !.html = rn.result], rn, ps, hs, "request:end", buffer)
       [] OTHER -> [pipe |-> Respond(q, "page", p.status, p.html), run |-> rn]

\* A request arrives: fetch runs up to `await executeHooks(HOOKS.REQUEST_START`.
PipelineFetch(path) ==
  /\ pipe.pc \in {"idle", "done"}
  /\ ~run.active
  /\ outputBuffer' = <<>>
  /\ LET r == CallHook([NoPipe EXCEPT !.path = path], NoRun, plugins, hooks,
                       "request:start", <<>>)
     IN /\ pipe' = r.pipe
        /\ run' = r.run
  /\ UNCHANGED <<worker, wasmModule, currentPath, reqs, render>>
  /\ UNCHANGED <<pluginVars, cstringVars, heapVars, cache, now>>

\* The waterfall fetch awaits has returned: fetch resumes.
PipelineResume ==
  /\ pipe.pc \in Range(PipelineHooks)
  /\ run.returned
  /\ LET r == AfterHook(pipe, run, plugins, hooks, outputBuffer)
     IN /\ pipe' = r.pipe
        /\ run' = r.run
  /\ UNCHANGED requestVars
  /\ UNCHANGED <<pluginVars, cstringVars, heapVars, cache, now>>

\* `await WebAssembly.instantiate` settles: main runs if it is exported, then
\* fetch calls the content:load hook point; an error goes to the catch.
PipelineInstantiated(script) ==
  /\ pipe.pc = "instantiating"
  /\ IF ~wasmModule.valid
     THEN /\ pipe' = Respond(pipe, "error", 500, DiagnosticBody)
          /\ UNCHANGED <<run, outputBuffer>>
     ELSE IF "main" \notin wasmModule.exports
     THEN /\ LET r == CallHook(pipe, run, plugins, hooks, "content:load", outputBuffer)
             IN /\ pipe' = r.pipe
                /\ run' = r.run
          /\ UNCHANGED outputBuffer
     ELSE /\ outputBuffer' = outputBuffer \o script.emits
          /\ IF script.traps
             THEN /\ pipe' = Respond(pipe, "error", 500, DiagnosticBody)
                  /\ UNCHANGED run
             ELSE LET r == CallHook(pipe, run, plugins, hooks, "content:load",
                                    outputBuffer')
                  IN /\ pipe' = r.pipe
                     /\ run' = r.run
  /\ UNCHANGED <<worker, wasmModule, currentPath, reqs, render>>
  /\ UNCHANGED <<pluginVars, cstringVars, heapVars, cache, now>>

\* The seo plugin as the pipeline registers it.
SeoDescriptor ==
  [name |-> "seo", version |-> "1.0.0", description |-> "SEO enhancements",
   config |-> [siteName |-> "NERD CMS"],
   hooks |-> <<<<"template:after", "ogTags">>>>, init |-> NoInit]

\* The registries the pipeline is run on: the seo plugin registered, alone
\* or with handlers on other hook points, enabled or disabled.
PipelineRegistries ==
  LET seo == RegisterResult(<<>>, EmptyMap, SeoDescriptor)
      more == AddHookTo(AddHookTo(AddHookTo(seo.hooks, "template:before", "h1", "anonymous"),
                                  "output:filter", "h5", "anonymous"),
                        "request:end", "h1", "anonymous")
  IN {[plugins |-> seo.plugins, hooks |-> seo.hooks],
      [plugins |-> seo.plugins, hooks |-> more],
      [plugins |-> SetEnabledIn(seo.plugins, "seo", FALSE), hooks |-> more],
      [plugins |-> seo.plugins,
       hooks |-> AddHookTo(seo.hooks, "request:start", "cacheHit", "anonymous")]}

InitPipeline ==
  /\ \E reg \in PipelineRegistries :
       /\ plugins = reg.plugins
       /\ hooks = reg.hooks
  /\ lastCall = NoCall
  /\ CStringIdle
  /\ HeapIdle
  /\ run = NoRun
  /\ pipe = NoPipe
  /\ cache = EmptyCache
  /\ now = 0
  /\ worker = "part_000"
  /\ wasmModule \in {m \in Modules : m.exports \in {{}, {"main"}}}
  /\ outputBuffer = <<>>
  /\ currentPath = "/"
  /\ reqs = [r \in RequestIds |-> NoRequest]
  /\ render = NoRender

NextPipeline ==
  \/ \E path \in PipelinePaths : PipelineFetch(path)
  \/ \E outcome \in Outcomes : HandlerSettles(outcome)
  \/ PipelineResume
  \/ \E script \in {sc \in Scripts : Len(sc.emits) <= 1} : PipelineInstantiated(script)

SpecPipeline == InitPipeline /\ [][NextPipeline]_vars

\* ------------------------------------------------------------- claims
IsExecute == lastCall.op \in {"executeHooks", "executeHooksSync"}

NumCalls == Len(lastCall.calls)

\* The entries of a list all have a priority property, pairwise distinct.
OwnPrioritiesDistinct(list) ==
  /\ \A i \in 1..Len(list) : HasPriorityProp(list[i].handler)
  /\ \A i, j \in 1..Len(list) :
       i # j => PriorityProp(list[i].handler) # PriorityProp(list[j].handler)

\* C1: when the handlers added to a hook point carry pairwise distinct
\* integer priorities, executeHooks invokes them in strictly ascending order
\* of these priorities.
C1_AscendingOwnPriority ==
  (/\ lastCall.op = "executeHooks"
   /\ lastCall.hook \in DOMAIN hooks
   /\ OwnPrioritiesDistinct(hooks[lastCall.hook]))
  => \A i, j \in 1..NumCalls :
       i < j => PriorityProp(lastCall.calls[i].handler) <
                PriorityProp(lastCall.calls[j].handler)

\* C2: handlers of one hook point with equal priority are invoked by
\* executeHooks in the order of their addHook calls, whatever other registry
\* calls were made in between.
C2_EqualPriorityInAddOrder ==
  lastCall.op = "executeHooks" =>
    \A i, j \in 1..NumCalls :
      (i < j /\ lastCall.calls[i].priority = lastCall.calls[j].priority)
        => lastCall.calls[i].seq < lastCall.calls[j].seq

C2_Witness ==
  /\ lastCall.op = "executeHooks"
  /\ \E i, j \in 1..NumCalls :
       /\ i < j
       /\ lastCall.calls[i].priority = lastCall.calls[j].priority
       /\ lastCall.calls[i].handler # lastCall.calls[j].handler
       /\ lastCall.calls[i].plugin # lastCall.calls[j].plugin

\* The value the chain has produced before invocation i: the most recent
\* defined return value of an earlier invocation, else the initial data.
ChainValue(calls, data, i) ==
  LET defined == {j \in 1..(i - 1) : calls[j].outcome = "value"}
  IN IF defined = {} THEN data
     ELSE LET m == CHOOSE j \in defined : \A k \in defined : k <= j
          IN HandlerValue(calls[m].handler, calls[m].arg)

\* C3: every handler executeHooks invokes receives the value of the chain
\* so far: the initial data, or the most recent defined return value of an
\* earlier handler; an undefined return value leaves it unchanged.
C3_WaterfallArguments ==
  lastCall.op = "executeHooks" =>
    /\ \A i \in 1..NumCalls :
         lastCall.calls[i].arg = ChainValue(lastCall.calls, lastCall.data, i)
    /\ lastCall.result = ChainValue(lastCall.calls, lastCall.data, NumCalls + 1)

\* The handlers of priority 1 and 5: the first sees the initial data, the
\* second the first one's result.
C3_Witness ==
  /\ lastCall.op = "executeHooks"
  /\ NumCalls = 2
  /\ lastCall.calls[1].handler = "h1" /\ lastCall.calls[1].priority = 1
  /\ lastCall.calls[1].arg = Data0 /\ lastCall.calls[1].outcome = "value"
  /\ lastCall.calls[2].handler = "h5" /\ lastCall.calls[2].priority = 5
  /\ lastCall.calls[2].arg = HandlerValue("h1", Data0)

\* The outcomes with every throw replaced by a return of undefined.
PassThrough(out) ==
  [i \in DOMAIN out |-> IF out[i] = "throw" THEN "undef" ELSE out[i]]

\* The entries of list that executeHooks does not skip.
NotSkipped(list) == SelectSeq(list, LAMBDA e : ~SkipsEntry(plugins, e))

SameHandlers(calls, others) ==
  /\ Len(calls) = Len(others)
  /\ \A i \in 1..Len(calls) :
       /\ calls[i].handler = others[i].handler
       /\ calls[i].plugin = others[i].plugin
       /\ calls[i].seq = others[i].seq

\* C4: a handler that throws does not stop executeHooks or executeHooksSync:
\* every later handler is still invoked, the call does not throw, and its
\* value is the one it has when the failing handlers return undefined.
C4_ThrowIsPassThrough ==
  IsExecute =>
    LET quiet == PassThrough(lastCall.out)
        r == IF lastCall.op = "executeHooks"
             THEN RunHooks(plugins, hooks, lastCall.hook, lastCall.data, quiet)
             ELSE RunHooksSync(plugins, hooks, lastCall.hook, lastCall.data, quiet)
    IN /\ lastCall.ret = "value"
       /\ lastCall.result = r.result
       /\ SameHandlers(lastCall.calls, r.calls)
       /\ lastCall.hook \in DOMAIN hooks =>
            SameHandlers(lastCall.calls, NotSkipped(hooks[lastCall.hook]))

C4_Witness ==
  /\ IsExecute
  /\ \E i, j \in 1..NumCalls :
       /\ i < j
       /\ lastCall.calls[i].outcome = "throw"
       /\ lastCall.calls[j].outcome = "value"
       /\ lastCall.result = HandlerValue(lastCall.calls[j].handler, lastCall.calls[i].arg)

IsRegistered(name) == \E i \in 1..Len(GetPlugins(plugins)) : GetPlugins(plugins)[i].name = name

IsDisabled(name) ==
  \E i \in 1..Len(plugins) : plugins[i].name = name /\ ~plugins[i].enabled

IsEntryOf(c, list) ==
  \E i \in 1..Len(list) :
    /\ list[i].handler = c.handler
    /\ list[i].plugin = c.plugin
    /\ list[i].seq = c.seq

\* C5: while a registered plugin is disabled executeHooks invokes none of
\* its handlers, which stay in the hook lists; once it is enabled again
\* executeHooks invokes the same handlers in the same order as before.
C5_DisableSkipsEnableRestores ==
  /\ IsExecute => \A i \in 1..NumCalls : ~IsDisabled(lastCall.calls[i].plugin)
  /\ (lastCall.op = "setPluginEnabled" /\ lastCall.tracked /\ ~lastCall.enabled) =>
       /\ DOMAIN lastCall.before = DOMAIN hooks
       /\ \A k \in DOMAIN hooks :
            /\ \A i \in 1..Len(lastCall.before[k]) :
                 IsEntryOf(lastCall.before[k][i], hooks[k])
            /\ InvokedNow(plugins, hooks)[k] =
                 SelectSeq(lastCall.before[k], LAMBDA c : c.plugin # lastCall.name)
  /\ (lastCall.op = "setPluginEnabled" /\ lastCall.tracked /\ lastCall.enabled) =>
       InvokedNow(plugins, hooks) = lastCall.before

C5_Witness ==
  /\ lastCall.op = "setPluginEnabled" /\ lastCall.tracked /\ lastCall.enabled
  /\ \E k \in DOMAIN lastCall.before :
       /\ Len(lastCall.before[k]) = 2
       /\ lastCall.before[k][2].plugin = lastCall.name
       /\ lastCall.before[k][1].plugin # lastCall.name

\* C6: once unregisterPlugin(name) has returned true the plugin is not in
\* getPlugins(), no hook list holds an entry owned by it (those added by its
\* init included), and neither executeHooks nor executeHooksSync invokes one.
C6_UnregisteredNeverInvoked ==
  /\ (lastCall.op = "unregisterPlugin" /\ lastCall.ret = "true") =>
       ~IsRegistered(lastCall.name)
  /\ \A name \in PluginNames :
       ~IsRegistered(name) =>
         /\ \A k \in DOMAIN hooks : \A i \in 1..Len(hooks[k]) : hooks[k][i].plugin # name
         /\ IsExecute => \A i \in 1..NumCalls : lastCall.calls[i].plugin # name

\* A plugin with a handler from its descriptor and one added by its init
\* has just been unregistered.
C6_Witness ==
  /\ lastCall.op = "unregisterPlugin" /\ lastCall.ret = "true"
  /\ <<"template:after", "h5">> \in lastCall.removed
  /\ <<"request:start", "h5">> \in lastCall.removed

NamesDistinct ==
  \A i, j \in 1..Len(plugins) : plugins[i].name = plugins[j].name => i = j

\* C7: registerPlugin with a registered name returns false, calls no init
\* and changes neither the plugins nor any hook list; no two plugins of the
\* registry have the same name.
C7_DuplicateRegistrationNoChange ==
  /\ []NamesDistinct
  /\ [][(lastCall'.op = "registerPlugin" /\ HasPlugin(plugins, lastCall'.name))
          => /\ lastCall'.ret = "false"
             /\ ~lastCall'.initCalled
             /\ plugins' = plugins
             /\ hooks' = hooks]_vars

\* The second registration of a plugin that has been disabled and has an
\* instance, with a descriptor that has hooks and an init function.
C7_Witness ==
  /\ lastCall.op = "registerPlugin" /\ lastCall.ret = "false"
  /\ lastCall.desc.init.defined /\ lastCall.desc.hooks # <<>>
  /\ IsDisabled(lastCall.name)
  /\ GetPlugin(plugins, lastCall.name).instance = "inst"

\* C8: registerPlugin with a descriptor without a name returns false and
\* raises no error.
C8_MissingNameReturnsFalse ==
  (lastCall.op = "registerPlugin" /\ lastCall.desc.name = "") => lastCall.ret = "false"

PairPresent(hs, pair, owner) ==
  /\ pair[1] \in DOMAIN hs
  /\ \E i \in 1..Len(hs[pair[1]]) :
       hs[pair[1]][i].handler = pair[2] /\ hs[pair[1]][i].plugin = owner

\* init calls removeHook for the pair.
InitRemoves(init, pair) ==
  \E m \in 1..Len(init.ops) :
    /\ init.ops[m].op = "removeHook"
    /\ init.ops[m].hook = pair[1]
    /\ init.ops[m].handler = pair[2]

RegisteredNow == lastCall.op = "registerPlugin" /\ lastCall.ret = "true"

\* What C9 says of everything but the presence of the descriptor's hooks.
RegisteredBasics ==
  LET d == lastCall.desc
  IN /\ IsRegistered(d.name)
     /\ GetPlugin(plugins, d.name).enabled
     /\ (d.init.defined /\ ~d.init.throws) =>
          GetPlugin(plugins, d.name).instance = d.init.value
     /\ lastCall.initCalled =>
          \A n \in 1..Len(d.hooks) : PairPresent(lastCall.atInit, d.hooks[n], d.name)

\* C9 as stated: after a successful registerPlugin the plugin is stored
\* enabled, every pair of descriptor.hooks is in its hook list with the
\* plugin as owner, init's value is the instance, and the hooks were added
\* before init was called.
C9_HooksPresentAfterRegister ==
  RegisteredNow =>
    /\ RegisteredBasics
    /\ \A n \in 1..Len(lastCall.desc.hooks) :
         PairPresent(hooks, lastCall.desc.hooks[n], lastCall.desc.name)

\* C9 amended: as C9, but a pair of descriptor.hooks is in its hook list
\* unless init removed it through the removeHook of its capability object.
C9_HooksPresentUnlessInitRemoved ==
  RegisteredNow =>
    /\ RegisteredBasics
    /\ \A n \in 1..Len(lastCall.desc.hooks) :
         \/ PairPresent(hooks, lastCall.desc.hooks[n], lastCall.desc.name)
         \/ InitRemoves(lastCall.desc.init, lastCall.desc.hooks[n])

C9_Witness ==
  /\ RegisteredNow
  /\ lastCall.initCalled /\ ~lastCall.desc.init.throws
  /\ lastCall.desc.init.ops # <<>>
  /\ GetPlugin(plugins, lastCall.name).instance = "inst"
  /\ PairPresent(hooks, <<"template:after", "h5">>, lastCall.name)
  /\ PairPresent(lastCall.atInit, <<"template:after", "h5">>, lastCall.name)

\* C10: when init throws registerPlugin still returns true, the plugin is
\* registered and enabled with instance null, and the hook handlers it has
\* at that moment stay registered and are invoked by executeHooks.
C10_InitThrowKeepsPlugin ==
  (lastCall.op = "registerPlugin" /\ lastCall.initCalled /\ lastCall.desc.init.throws) =>
    LET d == lastCall.desc
    IN /\ lastCall.ret = "true"
       /\ IsRegistered(d.name)
       /\ GetPlugin(plugins, d.name).enabled
       /\ GetPlugin(plugins, d.name).instance = "null"
       /\ hooks = lastCall.atThrow
       /\ \A n \in 1..Len(d.hooks) :
            \/ PairPresent(hooks, d.hooks[n], d.name)
            \/ InitRemoves(d.init, d.hooks[n])
       /\ \A k \in DOMAIN hooks : \A i \in 1..Len(hooks[k]) :
            hooks[k][i].plugin = d.name =>
              \E out \in OutcomeChoices(hooks, k) :
                IsEntryOf(hooks[k][i], RunHooks(plugins, hooks, k, Data0, out).calls)

C10_Witness ==
  /\ lastCall.op = "registerPlugin" /\ lastCall.initCalled /\ lastCall.desc.init.throws
  /\ lastCall.desc.init.ops # <<>>
  /\ PairPresent(hooks, <<"template:after", "h5">>, lastCall.name)
  /\ PairPresent(hooks, <<"request:start", "h5">>, lastCall.name)

\* The fields of a stored plugin other than its enabled flag.
SameButEnabled(p, q) ==
  /\ p.name = q.name /\ p.version = q.version /\ p.description = q.description
  /\ p.config = q.config /\ p.instance = q.instance

\* C11: setPluginEnabled(name, enabled) on an unregistered name returns false
\* and changes no state; on a registered name it returns true and changes
\* only that plugin's enabled flag: the hook lists, every other plugin, and
\* the plugin's own config and instance stay as they were.
C11_SetEnabledFrame ==
  [][lastCall'.op = "setPluginEnabled" =>
       /\ hooks' = hooks
       /\ IF ~HasPlugin(plugins, lastCall'.name)
          THEN lastCall'.ret = "false" /\ plugins' = plugins
          ELSE /\ lastCall'.ret = "true"
               /\ Len(plugins') = Len(plugins)
               /\ \A i \in 1..Len(plugins) :
                    IF plugins[i].name = lastCall'.name
                    THEN /\ SameButEnabled(plugins'[i], plugins[i])
                         /\ plugins'[i].enabled = lastCall'.enabled
                    ELSE plugins'[i] = plugins[i]]_vars

C11_Witness ==
  /\ lastCall.op = "setPluginEnabled" /\ lastCall.ret = "true" /\ ~lastCall.enabled
  /\ Len(plugins) = 2
  /\ ~GetPlugin(plugins, lastCall.name).enabled
  /\ GetPlugin(plugins, lastCall.name).config # EmptyMap
  /\ \E k \in DOMAIN hooks : \E i \in 1..Len(hooks[k]) : hooks[k][i].plugin = lastCall.name

\* The state right after writeCString followed by readCString at its pointer.
ReadBack == cstr.op = "readCString" /\ cstr.afterWrite

\* The content bytes the claims expect of the last writeCString: the encoded
\* text, cut to maxLen - 1 bytes when it is longer.
ExpectedContent ==
  LET encoded == TextEncode(cstr.str)
  IN SubSeq(encoded, 1, Min(Len(encoded), cstr.maxLen - 1))

\* Memory holds the expected content at the pointer, then one zero byte; the
\* call returned the content length and the read returned its decoding.
WrittenAndReadBack ==
  /\ cstr.ret = Len(ExpectedContent)
  /\ \A k \in 1..Len(ExpectedContent) :
       /\ cstr.ptr + k - 1 \in DOMAIN memory
       /\ memory[cstr.ptr + k - 1] = ExpectedContent[k]
  /\ cstr.ptr + Len(ExpectedContent) \in DOMAIN memory
  /\ memory[cstr.ptr + Len(ExpectedContent)] = 0
  /\ cstr.out = TextDecode(ExpectedContent)
  /\ Len(TextEncode(cstr.str)) <= cstr.maxLen - 1 => cstr.out = cstr.str

\* The range [ptr, ptr + maxLen) of the last writeCString lies inside memory.
RangeInMemory ==
  cstr.ptr >= 0 /\ cstr.ptr + cstr.maxLen <= ByteLength(memory)

C13_WriteStaysInRange ==
  [][cstr'.op = "writeCString" =>
       /\ \A a \in DOMAIN memory :
            a \notin cstr'.ptr..(cstr'.ptr + cstr'.maxLen - 1) => memory'[a] = memory[a]
       /\ cstr'.maxLen >= 1 /\ cstr'.ptr + cstr'.ret \in DOMAIN memory =>
            /\ cstr'.ret <= cstr'.maxLen - 1
            /\ memory'[cstr'.ptr + cstr'.ret] = 0]_vars

\* The first zero byte at or after ptr, or the end of memory.
FirstZeroOrEnd(bytes, ptr) ==
  LET zs == {a \in DOMAIN bytes : a >= ptr /\ bytes[a] = 0}
  IN IF zs = {} THEN ByteLength(bytes)
     ELSE CHOOSE a \in zs : \A z \in zs : a <= z

\* The bytes of memory from ptr up to stop.
BytesFrom(bytes, ptr, stop) ==
  [k \in 1..Max(stop - Max(ptr, 0), 0) |-> bytes[Max(ptr, 0) + k - 1]]

\* C14: readCString returns, for every ptr and every memory content, the
\* decoding of the bytes from ptr up to the first zero byte at or after ptr,
\* or up to the end of memory; a ptr before the start of memory may also
\* give the empty text.
C14_ReadCStringDecodes ==
  cstr.op = "readCString" =>
    \/ cstr.out = TextDecode(BytesFrom(memory, cstr.ptr, FirstZeroOrEnd(memory, cstr.ptr)))
    \/ cstr.ptr < 0 /\ cstr.out = <<>>

\* The first k allocations of two periods ask for the same sizes.
SameSizes(a, b, k) == \A j \in 1..k : a[j].size = b[j].size

\* C15: after wasm_reset_heap, a sequence of wasm_alloc calls returns the
\* addresses the same sequence returned after an earlier reset or on the
\* fresh instance, whatever was allocated in between.
C15_ResetReplaysAddresses ==
  \A k \in 1..Min(Len(allocs), Len(earlier)) :
    SameSizes(allocs, earlier, k) => allocs[k].ret = earlier[k].ret

C15_Witness ==
  /\ heapCall.op = "wasm_alloc"
  /\ Len(allocs) = 2 /\ Len(earlier) = 3
  /\ SameSizes(allocs, earlier, 2)
  /\ ~allocs[2].ret.null /\ allocs[2].ret.offset > 0
  /\ earlier[3].ret.null

\* C16: heap_offset never decreases as a result of wasm_alloc, for any int
\* size, or of wasm_free; only wasm_reset_heap moves it down, to zero.
C16_OffsetNeverDecreases ==
  [][/\ heapCall'.op \in {"wasm_alloc", "wasm_free"} => heap_offset' >= heap_offset
     /\ heapCall'.op = "wasm_reset_heap" => heap_offset' = 0]_vars

\* A request whose guest module was instantiated and whose handler returned.
Rendered(r) == reqs[r].pc = "done" /\ wasmModule.valid

\* C17: on every route rendered through the guest, the route's render export
\* is called, and main is not, when it exists; otherwise main is called when
\* it is exported, and nothing is called and no error raised when it is not.
C17_FallbackToMain ==
  \A r \in RequestIds :
    Rendered(r) =>
      /\ reqs[r].entry =
           IF RenderExport(reqs[r].path) \in wasmModule.exports
           THEN RenderExport(reqs[r].path)
           ELSE IF "main" \in wasmModule.exports THEN "main" ELSE "none"
      /\ reqs[r].entry = "none" => reqs[r].response.kind = "page"

\* C18: the collected output is the strings the guest emitted, one element
\* per host call in emission order, and the response body is their
\* concatenation with no separator between or after them.
C18_BodyIsConcatenation ==
  \A r \in RequestIds :
    Rendered(r) /\ reqs[r].response.kind = "page" =>
      /\ reqs[r].collected = (IF reqs[r].entry = "none" THEN <<>> ELSE reqs[r].script.emits)
      /\ reqs[r].response.body = Join(reqs[r].collected, <<>>)

\* C19: when two requests are served concurrently and interleave at the
\* awaits, each is answered with exactly the strings its own guest emitted.
C19_OwnOutputOnly ==
  \A r \in RequestIds :
    Rendered(r) /\ reqs[r].response.kind = "page" =>
      reqs[r].response.body =
        Join(IF reqs[r].entry = "none" THEN <<>> ELSE reqs[r].script.emits, <<>>)

\* The characters of the strings of a list.
CharsOf(list) == UNION {Range(list[i]) : i \in 1..Len(list)}

\* C20: when instantiation or the entry point fails, on any guest route, the
\* request is answered with a single 500 diagnostic response that contains
\* none of the output collected before the failure, and the failure does not
\* leave the handler unhandled.
C20_FailureGivesDiagnostic ==
  \A r \in RequestIds :
    reqs[r].pc = "done" /\ reqs[r].failed =>
      /\ reqs[r].response.kind = "diagnostic"
      /\ reqs[r].response.status = 500
      /\ Range(reqs[r].response.body) \cap CharsOf(reqs[r].collected) = {}

\* C24: for the same registry, data and handler behaviour, executeHooksSync
\* invokes the same handlers in the same order with the same arguments and
\* returns the same value as executeHooks, disabled plugins and throwing
\* handlers included.
C24_SyncSameAsAsync ==
  lastCall.op = "executeHooksSync" =>
    LET a == RunHooks(plugins, hooks, lastCall.hook, lastCall.data, lastCall.out)
    IN /\ lastCall.calls = a.calls
       /\ lastCall.result = a.result
       /\ lastCall.ret = (IF a.threw THEN "throw" ELSE "value")

C24_Witness ==
  /\ lastCall.op = "executeHooksSync"
  /\ Len(lastCall.calls) >= 1
  /\ \E i \in 1..Len(lastCall.calls) : lastCall.calls[i].outcome = "throw"
  /\ \E i \in 1..Len(hooks[lastCall.hook]) : SkipsEntry(plugins, hooks[lastCall.hook][i])

\* The hook point of the last call has no handler to run: it never had a
\* list, its list is empty, or every entry belongs to a disabled plugin.
NothingToRun ==
  \/ lastCall.hook \notin DOMAIN hooks
  \/ \A i \in 1..Len(hooks[lastCall.hook]) :
       /\ IsRegistered(hooks[lastCall.hook][i].plugin)
       /\ IsDisabled(hooks[lastCall.hook][i].plugin)

\* C26: executeHooks and executeHooksSync return the initial data unchanged
\* and invoke no handler when the hook point never had a handler, when its
\* list has become empty, and when all its entries belong to disabled plugins.
C26_NothingToRunReturnsData ==
  IsExecute /\ NothingToRun =>
    lastCall.result = lastCall.data /\ lastCall.calls = <<>> /\ lastCall.ret = "value"

C26_Witness ==
  /\ IsExecute /\ NothingToRun
  /\ lastCall.hook \in DOMAIN hooks
  /\ Len(hooks[lastCall.hook]) = 2
  /\ "request:start" \in DOMAIN hooks /\ hooks["request:start"] = <<>>

\* C27: a handler failure during executeHooks leaves the registry unchanged:
\* every hook list and every plugin's metadata are as before the call, the
\* failing handler's plugin is still registered and enabled, and the next
\* executeHooks on that hook point invokes the failing handler again.
C27_FailureLeavesRegistry ==
  [][/\ lastCall'.op = "executeHooks"
     /\ \E i \in 1..Len(lastCall'.calls) : lastCall'.calls[i].outcome = "throw"
     => /\ plugins' = plugins
        /\ hooks' = hooks
        /\ RunHooks(plugins', hooks', lastCall'.hook, lastCall'.data, lastCall'.out).calls
             = lastCall'.calls]_vars

C27_Witness ==
  /\ lastCall.op = "executeHooks"
  /\ \E i \in 1..Len(lastCall.calls) :
       /\ lastCall.calls[i].outcome = "throw"
       /\ IsRegistered(lastCall.calls[i].plugin)
       /\ ~IsDisabled(lastCall.calls[i].plugin)

\* The names of the entries getPlugins() returns, in order.
ListedNames(ps) == [i \in 1..Len(GetPlugins(ps)) |-> GetPlugins(ps)[i].name]

\* The enabled flag getPlugins() reports for a listed name.
ListedEnabled(ps, name) ==
  \E i \in 1..Len(GetPlugins(ps)) :
    GetPlugins(ps)[i].name = name /\ GetPlugins(ps)[i].enabled

\* C28: getPlugins() returns one entry per registered plugin in the order of
\* their most recent successful registration, each with the plugin's current
\* enabled flag: a registration adds the plugin last and enabled, an
\* unregistration removes it and keeps the order of the others, a successful
\* setPluginEnabled sets the listed flag, and no other call changes the list.
C28_GetPluginsOrder ==
  [][LET name == lastCall'.name
         before == ListedNames(plugins)
         after == ListedNames(plugins')
     IN /\ \A i, j \in 1..Len(after) : i # j => after[i] # after[j]
        /\ IF lastCall'.op = "registerPlugin" /\ ~HasPlugin(plugins, name)
              /\ HasPlugin(plugins', name)
           THEN after = Append(before, name) /\ ListedEnabled(plugins', name)
           ELSE IF lastCall'.op = "unregisterPlugin" /\ HasPlugin(plugins, name)
           THEN after = SelectSeq(before, LAMBDA n : n # name)
           ELSE after = before
        /\ \A n \in Range(before) \cap Range(after) :
             ListedEnabled(plugins', n) =
               IF lastCall'.op = "setPluginEnabled" /\ n = name
               THEN lastCall'.enabled ELSE ListedEnabled(plugins, n)]_vars

C28_Witness ==
  /\ lastCall.op = "registerPlugin" /\ lastCall.ret = "true"
  /\ Len(GetPlugins(plugins)) = 2
  /\ GetPlugins(plugins)[2].name = lastCall.name
  /\ ~GetPlugins(plugins)[1].enabled

\* C29: when two requests with different paths interleave at the await of
\* the instantiation, the path the guest is given by js_get_request_path and
\* the path the host uses afterwards to choose the entry point and the
\* response status are those of the request that created the instance.
C29_OwnPathAfterAwait ==
  \A r \in RequestIds :
    Rendered(r) /\ reqs[r].response.kind = "page" =>
      /\ reqs[r].route = reqs[r].path
      /\ reqs[r].entry = EntryPoint(reqs[r].path, wasmModule.exports)
      /\ reqs[r].response.status = ResponseStatus(reqs[r].path)

\* C23: within one executeHooks call at most one handler is in progress at
\* any time; a handler is started only when the promise of the handler
\* invoked before it has settled.
C23_OneHandlerInProgress ==
  /\ Cardinality(InProgress(run)) <= 1
  /\ \A i \in 1..Len(run.calls) :
       run.calls[i].outcome = "pending" => i = Len(run.calls)

\* A call suspended in its second handler, the first one settled.
C23_Witness ==
  /\ run.active
  /\ Len(run.calls) = 2
  /\ run.calls[1].outcome # "pending"
  /\ run.calls[2].outcome = "pending"

\* The handlers of an array, in order.
HandlersOf(list) == [i \in 1..Len(list) |-> list[i].handler]

Distinct(seq) == \A i, j \in 1..Len(seq) : i # j => seq[i] # seq[j]

\* A call has returned during which exactly one registry call changed its
\* hook point's list, the lists before and after holding each handler once.
ReturnedAfterOneMutation ==
  /\ run.returned
  /\ run.mutations = 1
  /\ Distinct(HandlersOf(run.pre))
  /\ Distinct(HandlersOf(run.post))

\* C25: when one registry call changes the list of a hook point while an
\* executeHooks call on it is suspended in a handler, that waterfall invokes
\* no handler twice and skips no handler that is in the list both before and
\* after the change.
C25_NoDoubleNoSkip ==
  ReturnedAfterOneMutation =>
    /\ Distinct(HandlersOf(run.calls))
    /\ \A h \in Range(HandlersOf(run.pre)) \cap Range(HandlersOf(run.post)) :
         h \in Range(HandlersOf(run.calls))

\* C21: within one request the hook points run in the order of
\* PipelineHooks, a waterfall is started only when every handler of the
\* waterfalls before it has settled, template:after is given the value
\* template:before returned and output:filter the value template:after
\* returned.
C21_FixedOrderAndDataFlow ==
  /\ Len(pipe.trace) <= Len(PipelineHooks)
  /\ \A k \in 1..Len(pipe.trace) :
       /\ pipe.trace[k].hook = PipelineHooks[k]
       /\ \A i \in 1..Len(pipe.trace[k].calls) : pipe.trace[k].calls[i].outcome # "pending"
  /\ pipe.pc \in Range(PipelineHooks) =>
       /\ pipe.pc = PipelineHooks[Len(pipe.trace) + 1]
       /\ run.hook = pipe.pc
  /\ Len(pipe.trace) >= 5 => pipe.trace[5].input = pipe.trace[4].result
  /\ Len(pipe.trace) >= 6 => pipe.trace[6].input = pipe.trace[5].result

\* A page was answered after all seven waterfalls, template:before and
\* template:after having each changed the page.
C21_Witness ==
  /\ pipe.pc = "done"
  /\ pipe.response.kind = "page"
  /\ Len(pipe.trace) = 7
  /\ pipe.trace[4].result # pipe.trace[4].input
  /\ pipe.trace[5].result # pipe.trace[5].input
  /\ pipe.trace[6].calls # <<>>

\* The number of occurrences of a token in a page.
Occurrences(str, token) == Cardinality({i \in 1..Len(str) : str[i] = token})

\* The seo plugin is registered and enabled, its handler on template:after.
SeoEnabled ==
  /\ HasPlugin(plugins, "seo")
  /\ GetPlugin(plugins, "seo").enabled
  /\ "template:after" \in DOMAIN hooks
  /\ \E i \in 1..Len(hooks["template:after"]) :
       /\ hooks["template:after"][i].handler = "ogTags"
       /\ hooks["template:after"][i].plugin = "seo"

\* C22: with the seo plugin registered and enabled, the response the
\* pipeline gives for a request whose guest ran and that no request:start
\* handler answered from a cache contains the tags its template:after
\* handler inserts exactly once, whatever the path.
C22_TagExactlyOnce ==
  SeoEnabled /\ pipe.pc = "done" /\ pipe.response.kind \notin {"error", "cached"} =>
    Occurrences(pipe.response.body, "og:tags") = 1

\* C30: a request that is answered has had its request:end waterfall run,
\* after the six other hook points.
C30_RequestEndBeforeResponse ==
  pipe.pc = "done" =>
    /\ Len(pipe.trace) = 7
    /\ pipe.trace[7].hook = "request:end"

\* The entries of a list that plugin name owns and that hold handler.
OwnedEntries(list, handler, name) ==
  {i \in 1..Len(list) : list[i].handler = handler /\ list[i].plugin = name}

\* registerPlugin has just run an init that called addHook on its
\* capability object.
InitAddedHook ==
  /\ lastCall.op = "registerPlugin"
  /\ lastCall.initCalled
  /\ \E i \in 1..Len(lastCall.desc.init.ops) : lastCall.desc.init.ops[i] = OpAddHook

\* C32: a handler a plugin adds through the addHook of the capability
\* object passed to its init is owned by that plugin: executeHooks does not
\* invoke it while the plugin is disabled, and no entry of the plugin is left
\* once it is unregistered.
C32_InitHookOwnedByPlugin ==
  /\ InitAddedHook =>
       /\ OpAddHook.hook \in DOMAIN hooks
       /\ OwnedEntries(hooks[OpAddHook.hook], OpAddHook.handler, lastCall.desc.name) # {}
  /\ (lastCall.op = "executeHooks" /\ lastCall.hook = OpAddHook.hook) =>
       \A i \in 1..NumCalls :
         (lastCall.calls[i].handler = OpAddHook.handler
            /\ lastCall.calls[i].plugin \in PluginNames)
           => ~IsDisabled(lastCall.calls[i].plugin)
  /\ (lastCall.op = "unregisterPlugin" /\ lastCall.ret = "true") =>
       \A k \in DOMAIN hooks : \A i \in 1..Len(hooks[k]) :
         hooks[k][i].plugin # lastCall.name

\* executeHooks ran on the hook point of a handler added by the init of a
\* plugin that is disabled, and did not invoke it.
C32_Witness ==
  /\ lastCall.op = "executeHooks"
  /\ lastCall.hook = OpAddHook.hook
  /\ lastCall.hook \in DOMAIN hooks
  /\ \E name \in PluginNames :
       /\ IsDisabled(name)
       /\ OwnedEntries(hooks[lastCall.hook], OpAddHook.handler, name) # {}
       /\ \A i \in 1..NumCalls : lastCall.calls[i].plugin # name

\* The (handler, owner) pairs of the entries of a list that name does not
\* own, in order.
OthersEntries(list, name) ==
  LET others == SelectSeq(list, LAMBDA e : e.plugin # name)
  IN [i \in 1..Len(others) |-> <<others[i].handler, others[i].plugin>>]

\* C33: the removeHook of the capability object given to a plugin removes
\* only entries that plugin owns: the entries other owners had on every hook
\* point when init was called are all there, in order, after init.
C33_RemoveHookScopedToPlugin ==
  (lastCall.op = "registerPlugin" /\ lastCall.initCalled) =>
    \A k \in DOMAIN lastCall.atInit :
      OthersEntries(hooks[k], lastCall.desc.name) =
        OthersEntries(lastCall.atInit[k], lastCall.desc.name)

\* C34: the priority stored for an entry is the handler's own priority when
\* it has one, and the default only when it has none.
C34_StoredPriorityIsOwn ==
  \A k \in DOMAIN hooks : \A i \in 1..Len(hooks[k]) :
    hooks[k][i].priority = IF HasPriorityProp(hooks[k][i].handler)
                           THEN PriorityProp(hooks[k][i].handler)
                           ELSE DefaultPriority

\* What identifies the entries of a list, in order.
EntriesOf(list) ==
  [i \in 1..Len(list) |-> <<list[i].handler, list[i].plugin, list[i].priority>>]

\* removeHook has left in place, in order, every entry that is not an entry
\* of lastCall'.hook holding lastCall'.handler, and every plugin.
RemoveHookFrame ==
  /\ DOMAIN hooks' = DOMAIN hooks
  /\ \A k \in DOMAIN hooks :
       EntriesOf(hooks'[k]) =
         EntriesOf(SelectSeq(hooks[k], LAMBDA e : ~(k = lastCall'.hook
                                                     /\ e.handler = lastCall'.handler)))
  /\ plugins' = plugins
  /\ (\/ lastCall'.hook \notin DOMAIN hooks
      \/ \A i \in 1..Len(hooks[lastCall'.hook]) :
           hooks[lastCall'.hook][i].handler # lastCall'.handler)
       => hooks' = hooks

\* unregisterPlugin has left in place, in order, every entry the plugin
\* does not own and every other plugin.
UnregisterFrame ==
  IF lastCall'.ret = "true"
  THEN /\ DOMAIN hooks' = DOMAIN hooks
       /\ \A k \in DOMAIN hooks :
            EntriesOf(hooks'[k]) =
              EntriesOf(SelectSeq(hooks[k], LAMBDA e : e.plugin # lastCall'.name))
       /\ plugins' = SelectSeq(plugins, LAMBDA q : q.name # lastCall'.name)
  ELSE /\ hooks' = hooks
       /\ plugins' = plugins

\* C36: unregisterPlugin and removeHook leave every entry they do not target
\* in place and in the same relative order on every hook point, leave every
\* other plugin's record unchanged, and change nothing when the plugin is not
\* registered or the handler is not in the list.
C36_RemovalsLeaveTheRest ==
  [][/\ lastCall'.op = "removeHook" => RemoveHookFrame
     /\ lastCall'.op = "unregisterPlugin" => UnregisterFrame]_vars

\* A plugin was unregistered and lost its entries while another plugin and
\* an entry of another owner stayed.
C36_Witness ==
  /\ lastCall.op = "unregisterPlugin"
  /\ lastCall.ret = "true"
  /\ lastCall.removed # {}
  /\ plugins # <<>>
  /\ \E k \in DOMAIN hooks : hooks[k] # <<>>

\* The entries of a list are in non-decreasing order of stored priority.
SortedByStoredPriority(list) ==
  \A i, j \in 1..Len(list) : i < j => list[i].priority <= list[j].priority

\* C37: after any sequence of addHook, removeHook, registerPlugin,
\* unregisterPlugin and setPluginEnabled calls the list of every hook point
\* is sorted in non-decreasing order of stored priority.
C37_ListsStaySorted ==
  \A k \in DOMAIN hooks : SortedByStoredPriority(hooks[k])

\* A list of two entries of different priority, the lower one added last.
C37_Witness ==
  \E k \in DOMAIN hooks :
    /\ Len(hooks[k]) = 2
    /\ hooks[k][1].priority < hooks[k][2].priority
    /\ hooks[k][1].seq > hooks[k][2].seq

\* The handlers of the entries of a list whose owner is 'anonymous', in order.
AnonymousHandlers(list) ==
  HandlersOf(SelectSeq(list, LAMBDA e : e.plugin = "anonymous"))

\* C38: a handler added with addHook without a plugin name is invoked by
\* every executeHooks on its hook point, and a registerPlugin call leaves it
\* in place.
C38_AnonymousHandlerStays ==
  /\ (lastCall.op = "executeHooks" /\ lastCall.hook \in DOMAIN hooks) =>
       AnonymousHandlers(lastCall.calls) = AnonymousHandlers(hooks[lastCall.hook])
  /\ (lastCall.op = "registerPlugin" /\ lastCall.initCalled) =>
       \A k \in DOMAIN lastCall.atInit :
         AnonymousHandlers(hooks[k]) = AnonymousHandlers(lastCall.atInit[k])

\* The allocations since the last reset that returned a pointer.
LiveRegions == {i \in 1..Len(allocs) : ~allocs[i].ret.null}

\* The region [p, p + size) of allocation i lies inside heap.
RegionInHeap(i) ==
  /\ allocs[i].size >= 0
  /\ allocs[i].ret.offset >= 0
  /\ allocs[i].ret.offset + allocs[i].size <= HeapSize

\* The regions of allocations i and j have no byte in common.
RegionsDisjoint(i, j) ==
  \/ allocs[i].ret.offset + allocs[i].size <= allocs[j].ret.offset
  \/ allocs[j].ret.offset + allocs[j].size <= allocs[i].ret.offset

\* C39: after any sequence of wasm_alloc and wasm_reset_heap calls,
\* 0 <= heap_offset <= sizeof(heap), and the regions returned since the last
\* reset lie inside heap and do not overlap.
C39_OffsetAndRegionsInHeap ==
  /\ 0 <= heap_offset
  /\ heap_offset <= HeapSize
  /\ \A i \in LiveRegions : RegionInHeap(i)
  /\ \A i, j \in LiveRegions : i # j => RegionsDisjoint(i, j)

\* C40: a wasm_alloc request that does not fit in the remaining heap returns
\* the null pointer and leaves heap_offset unchanged.
C40_FailedAllocLeavesOffset ==
  [][(heapCall'.op = "wasm_alloc" /\ heap_offset + heapCall'.size > HeapSize) =>
       /\ heapCall'.ret = NullPtr
       /\ heap_offset' = heap_offset]_vars

\* ------------------------------------------------------------- callWasmRender
\* The memory of a fresh instance, before the host has written to it.
FreshMemories == [0..(MemSize - 1) -> {0, 97}]

\* callWasmRender runs up to `await WebAssembly.instantiate`.
CallWasmRenderStart(data, exportName) ==
  /\ render.pc # "instantiating"
  /\ render' = [NoRender EXCEPT !.pc = "instantiating", !.data = data,
                                !.exportName = exportName]
  /\ UNCHANGED <<worker, wasmModule, outputBuffer, currentPath, reqs, pluginVars,
                 asyncVars, cstringVars, heapVars>>

\* The instantiation settles and callWasmRender runs to its return, on an
\* instance with memory fresh whose wasm_get_shared_buffer returns ptr.  A
\* module that does not instantiate rejects the await.
CallWasmRenderResume(fresh, ptr) ==
  LET steps == CallWasmRenderSteps(wasmModule.exports, render.data, render.exportName)
      start == [render EXCEPT !.before = fresh, !.memory = fresh, !.seen = fresh,
                              !.bufferPtr = ptr, !.steps = steps]
      end == RunSteps(steps, start, ptr, DataStr(render.data))
  IN /\ render.pc = "instantiating"
     /\ render' = IF wasmModule.valid
                  THEN [end EXCEPT !.pc = "done"]
                  ELSE [render EXCEPT !.pc = "failed"]
     /\ UNCHANGED <<worker, wasmModule, outputBuffer, currentPath, reqs, pluginVars,
                    asyncVars, cstringVars, heapVars>>

InitShared ==
  /\ PluginsIdle
  /\ AsyncIdle
  /\ CStringIdle
  /\ HeapIdle
  /\ worker = "part_001"
  /\ wasmModule \in [valid : BOOLEAN,
                     exports : SUBSET {"wasm_reset_heap", "wasm_get_shared_buffer",
                                       "render_home", "main"}]
  /\ outputBuffer = <<>>
  /\ currentPath = "/"
  /\ reqs = [r \in RequestIds |-> NoRequest]
  /\ render = NoRender

NextShared ==
  \/ \E data \in Payloads, exportName \in {"render_home", "render_404"} :
       CallWasmRenderStart(data, exportName)
  \/ \E fresh \in FreshMemories, ptr \in Pointers : CallWasmRenderResume(fresh, ptr)

SpecShared == InitShared /\ [][NextShared]_vars

\* The place of a call in callWasmRender: the instantiation, the heap reset,
\* the two calls that fill the shared buffer, the entry point.
StepRank(step) ==
  CASE step = "instantiate" -> 1
    [] step = "wasm_reset_heap" -> 2
    [] step = "wasm_get_shared_buffer" -> 3
    [] step = "writeCString" -> 4
    [] OTHER -> 5

\* The bytes of the payload that the shared buffer keeps.
KeptBytes(data) ==
  LET encoded == TextEncode(DataStr(data))
  IN SubSeq(encoded, 1, Min(Len(encoded), SharedBufferSize - 1))

\* C31: a finished callWasmRender made its calls in the order instantiate,
\* wasm_reset_heap (when exported), wasm_get_shared_buffer and the payload
\* write, entry point; the entry point found the payload already in the
\* buffer; the write changed no byte outside the SharedBufferSize bytes that
\* start at the returned address, and it stored the first
\* SharedBufferSize - 1 bytes of a longer payload followed by a zero.
C31_PayloadWrittenBeforeEntryPoint ==
  render.pc = "done" =>
    LET kept == KeptBytes(render.data)
        ptr == render.bufferPtr
        holds(mem) ==
          /\ \A k \in 1..Len(kept) :
               (ptr + k - 1) \in DOMAIN mem => mem[ptr + k - 1] = kept[k]
          /\ (ptr + Len(kept)) \in DOMAIN mem => mem[ptr + Len(kept)] = 0
    IN /\ render.steps # <<>> /\ render.steps[1] = "instantiate"
       /\ \A i, j \in DOMAIN render.steps :
            i < j => StepRank(render.steps[i]) < StepRank(render.steps[j])
       /\ "wasm_reset_heap" \in wasmModule.exports =>
            \E i \in DOMAIN render.steps : render.steps[i] = "wasm_reset_heap"
       /\ (Truthy(render.data) /\ "wasm_get_shared_buffer" \in wasmModule.exports)
            => render.wrote
       /\ render.wrote =>
            /\ Len(kept) <= SharedBufferSize - 1
            /\ holds(render.memory)
            /\ render.entry # "none" => holds(render.seen)
            /\ \A a \in DOMAIN render.memory :
                 a \notin ptr..(ptr + SharedBufferSize - 1) =>
                   render.memory[a] = render.before[a]

\* A payload longer than the buffer was cut and terminated inside the
\* instance's memory, over bytes that were not zero, after the heap reset and
\* before the entry point ran.
C31_Witness ==
  /\ render.pc = "done"
  /\ render.wrote
  /\ render.entry = "render_home"
  /\ \E i \in DOMAIN render.steps : render.steps[i] = "wasm_reset_heap"
  /\ Len(TextEncode(DataStr(render.data))) > SharedBufferSize - 1
  /\ render.bufferPtr \in 0..(MemSize - SharedBufferSize)
  /\ \A a \in DOMAIN render.before : render.before[a] = 97
  /\ render.seen[render.bufferPtr + SharedBufferSize - 1] = 0

\* ------------------------------------------------------------- response cache
\* The cache plugin as exported: its two handlers, and an init that creates
\* the Map and returns the instance that holds it.
CacheDescriptor ==
  [name |-> "cache", version |-> "1.0.0", description |-> "Response caching",
   config |-> [ttl |-> CacheTtl],
   hooks |-> <<<<"request:start", "cacheStart">>, <<"request:end", "cacheStore">>>>,
   init |-> [defined |-> TRUE, ops |-> <<>>, throws |-> FALSE, value |-> "cache"]]

\* The registries the cached pipeline is run on: the cache plugin registered,
\* enabled or disabled.
CacheRegistries ==
  LET reg == RegisterResult(<<>>, EmptyMap, CacheDescriptor)
  IN {[plugins |-> reg.plugins, hooks |-> reg.hooks],
      [plugins |-> SetEnabledIn(reg.plugins, "cache", FALSE), hooks |-> reg.hooks]}

\* A second passes.  A handler is a synchronous function: no time passes
\* between its call and its return.
Tick ==
  /\ now < MaxClock
  /\ InProgress(run) = {}
  /\ now' = now + 1
  /\ UNCHANGED <<run, pipe, cache, pluginVars, hostVars>>

InitCache ==
  /\ \E reg \in CacheRegistries :
       /\ plugins = reg.plugins
       /\ hooks = reg.hooks
  /\ lastCall = NoCall
  /\ CStringIdle
  /\ HeapIdle
  /\ run = NoRun
  /\ pipe = NoPipe
  /\ cache = EmptyCache
  /\ now = 0
  /\ worker = "part_000"
  /\ wasmModule \in {m \in Modules : m.exports \in {{}, {"main"}}}
  /\ outputBuffer = <<>>
  /\ currentPath = "/"
  /\ reqs = [r \in RequestIds |-> NoRequest]
  /\ render = NoRender

NextCache ==
  \/ \E path \in {"/", "/about"} : PipelineFetch(path)
  \/ HandlerSettles("value")
  \/ PipelineResume
  \/ \E script \in {sc \in Scripts : Len(sc.emits) <= 1} : PipelineInstantiated(script)
  \/ Tick

SpecCache == InitCache /\ [][NextCache]_vars

\* The cache plugin is registered and enabled and its Map holds an entry for
\* path that has not expired.
CacheHolds(path) ==
  /\ HasCache(plugins)
  /\ GetPlugin(plugins, "cache").enabled
  /\ CacheGet(cache, path).present
  /\ Unexpired(plugins, CacheGet(cache, path), now)

\* C35: when fetch resumes from the request:start waterfall of a request for
\* whose path the enabled cache plugin holds an unexpired entry, it returns
\* the cached page with X-Cache: HIT and does not instantiate the guest
\* module.
C35_UnexpiredEntryAnswersFromCache ==
  [][(pipe.pc = "request:start" /\ pipe'.pc # "request:start"
        /\ CacheHolds(pipe.path))
       => (pipe'.pc = "done" /\ pipe'.response.kind = "cached")]_vars

====
